---- MODULE Spec2Model ----
(***************************************************************************)
(* Verification model of the multi-tier generation orchestrator:          *)
(*   providers/llm/gemini.py   GeminiClient (candidate fallback,          *)
(*                             continuation, streaming, JSON)             *)
(*   workers/llm/storyboard.py batched key-frame generation (tiers,       *)
(*                             coverage reconciliation, ordering)         *)
(***************************************************************************)
EXTENDS Integers, Sequences, FiniteSets, TLC

(***************************************************************************)
(* Bounds of the model                                                     *)
(***************************************************************************)
\* largest continue_segments value a caller passes
MaxSegLimit == 2

\* largest number of work items (shots) in one request
MaxShots == 2

\* largest number of elements in one model answer of the batch path
MaxOutLen == 1

\* largest max_missing_retry_rounds a caller passes
MaxRetryRounds == 1

\* largest number of characters of a raw text of the structured-output pipeline
MaxTextLen == 5

\* largest number of events an underlying stream delivers
MaxEvents == 2

\* number of requests that use the shared storyboard client at a time
MaxRequests == 2

\* longest request and largest batch size where only the cutting into
\* batches is explored
MaxItems == 4

MaxBatchSize == 3

\* length of the scripts of backend behaviour
MaxCalls == 3

(***************************************************************************)
(* Program constants                                                       *)
(***************************************************************************)
\* retries=4 default of _call_with_retry
Retries == 4

\* self.model_candidates: the priority-ordered route (pro, flash, legacy)
Candidates == <<"pro", "flash", "legacy">>

NumCand == Len(Candidates)

\* FINISH_REASON_STOP
FINISH_REASON_STOP == {"STOP"}

\* the reasons the continuation branch handles
TruncReasons == {"MAX_TOKENS", "UNKNOWN"}

\* finish-reason names a response can carry after _finish_name
Reasons == {"STOP", "MAX_TOKENS", "UNKNOWN", "SAFETY"}

\* values of the on_max_tokens policy
Policies == {"continue", "return", "raise"}

(***************************************************************************)
(* Texts are sequences of characters; " " is whitespace, "1" is a JSON    *)
(* number, "x" is not JSON.                                                *)
(***************************************************************************)
Texts == {<< >>, <<" ">>, <<"x">>}

\* the texts an answer to generate_json can carry
JsonTexts == Texts \cup {<<"1">>}

\* str.strip() yields the empty string
IsBlank(t) == \A i \in 1..Len(t) : t[i] = " "

RECURSIVE JoinAll(_)
\* "".join(parts)
JoinAll(parts) ==
  IF parts = << >> THEN << >> ELSE Head(parts) \o JoinAll(Tail(parts))

RECURSIVE StripLeft(_)
StripLeft(t) ==
  IF t # << >> /\ Head(t) = " " THEN StripLeft(Tail(t)) ELSE t

RECURSIVE StripRight(_)
StripRight(t) ==
  IF t # << >> /\ t[Len(t)] = " " THEN StripRight(SubSeq(t, 1, Len(t) - 1)) ELSE t

\* str.strip()
Strip(t) == StripRight(StripLeft(t))

\* smallest and largest element of a non-empty set of numbers
MinOf(S) == CHOOSE x \in S : \A y \in S : x <= y

MaxOf(S) == CHOOSE x \in S : \A y \in S : x >= y

\* all sequences over S of length at most n
SeqsUpTo(S, n) == UNION {[1..k -> S] : k \in 0..n}

\* json.loads succeeds (the texts of the model hold digits, blanks and "x")
JsonLoadsOk(t) ==
  /\ Strip(t) # << >>
  /\ \A i \in 1..Len(Strip(t)) : Strip(t)[i] = "1"

(***************************************************************************)
(* What one backend invocation can do: raise a transient error, raise a   *)
(* permanent error, or answer with (text, finish reason).                  *)
(***************************************************************************)
Outcomes ==
  {[kind |-> "transient", txt |-> << >>, reason |-> "UNKNOWN"],
   [kind |-> "permanent", txt |-> << >>, reason |-> "UNKNOWN"]}
  \cup [kind : {"resp"}, txt : Texts, reason : Reasons]

\* the same for an invocation made by generate_json
JsonOutcomes ==
  {[kind |-> "transient", txt |-> << >>, reason |-> "UNKNOWN"],
   [kind |-> "permanent", txt |-> << >>, reason |-> "UNKNOWN"]}
  \cup [kind : {"resp"}, txt : JsonTexts, reason : Reasons]

VARIABLES
  fn,          \* the client method running: "none", "generate", "json", "stream"
  pc,          \* position inside the method
  ci,          \* index of the candidate of the current loop iteration
  attempt,     \* loop index i of the running _call_with_retry
  on_max,      \* on_max_tokens of the call
  seg_limit,   \* seg_limit of the call
  total,       \* the list `total` of the continuation loop
  seg,         \* the counter `seg` of the continuation loop
  failures,    \* the list `failures`
  retText,     \* returned text (first component of the result)
  retModel,    \* returned model name (second component), "" if none
  called,      \* history: candidates that received a backend call
  gaveUp,      \* history: candidates the loop has left behind
  reason1,     \* the local `reason`: finish reason of the first answer
  followUps,   \* history: per candidate, follow-up requests issued to it
  segLog,      \* history: answers given to the current candidate, in call order
  firstOut     \* history: per candidate, how its first request ended

VARIABLES
  evs,         \* stream: events of the open underlying stream not fetched yet
  evEnd,       \* stream: how the open underlying stream ends
  held,        \* stream: the chunk the returned generator holds (`first`, `txt`)
  emitted,     \* stream: the chunks the consumer has received
  cons,        \* stream: the consumer of the returned sequence
  opens,       \* history: per candidate, underlying streams opened
  warmUps,     \* history: per candidate, non-streaming warm-up calls
  source       \* history: the non-empty chunks of the stream that succeeded

streamVars == <<evs, evEnd, held, emitted, cons, opens, warmUps, source>>

VARIABLES
  last,        \* `last` of _call_with_retry: the error the latest invocation
               \* raised, "none" when it answered
  patched,     \* history: candidates that were sent the repair request
  ptxt         \* `ptxt`: the text the repair request was answered with, empty
               \* once the next request is made

retryVars == <<last, patched, ptxt>>

clientVars == <<fn, pc, ci, attempt, on_max, seg_limit, total, seg, reason1,
                failures, retText, retModel, called, gaveUp, followUps, segLog,
                firstOut, streamVars, retryVars>>

VARIABLES
  bpc,            \* position inside generate_keyframe_prompts_batched
  env,            \* which answers the model gives in this run
  pictures,       \* pictures_json
  order_map,      \* order_map
  batch_size,     \* batch_size
  max_rounds,     \* max_missing_retry_rounds
  workers,        \* parallel_workers
  tier,           \* escalation tier running (1..4)
  pending,        \* batch indices of the running _run_batches still to complete
  failed,         \* the list `failed` of the running _run_batches
  all_keyframes,  \* all_keyframes
  bfailures,      \* failures
  retry_round,    \* retry_round
  missing,        \* missing
  missing_detail, \* missing_detail: the identifiers given a reason
  succeeded,      \* history: batches that produced entries at some tier
  executed        \* history: how often _run_batches ran each batch (kept
                  \* in the runs of family "tally")

batchVars == <<bpc, env, pictures, order_map, batch_size, max_rounds, workers, tier, pending,
               failed, all_keyframes, bfailures, retry_round, missing,
               missing_detail, succeeded, executed>>

VARIABLES
  ppc,          \* position inside the structured-output pipeline
  pfn,          \* the function running it: "batch" or "pictures"
  raw_text,     \* the raw text of the model's answer
  repair_text,  \* the text the repair call answers with
  parsed_val,   \* the value the pipeline yields (`parsed` / `obj`)
  batch_out,    \* _run_one_batch: the returned list (after the shot_id filter)
  repair_calls, \* history: calls of _model_repair_to_json_array
  parse_log     \* local_fails of _run_one_batch

parseVars == <<ppc, pfn, raw_text, repair_text, parsed_val, batch_out, repair_calls,
               parse_log>>

VARIABLES
  hpc,          \* position of the classifier run
  message,      \* str(exc) of the error under classification
  transient     \* the value _is_transient_error returned

hintVars == <<hpc, message, transient>>

VARIABLES
  model_candidates, \* _client.model_candidates of the shared storyboard client
  rpc,              \* per request: its position
  rkind,            \* per request: the function it runs on the shared client
  orig,             \* per request: the local `orig` of _try_..._pro_3x
  att,              \* per request: the loop index i of _try_..._pro_3x
  seen              \* history, per request: the lists its client calls ran over

sharedVars == <<model_candidates, rpc, rkind, orig, att, seen>>

VARIABLES
  epc,          \* position of the extractor run
  resp,         \* the provider response handed to _extract_text_and_reason
  ex_txt,       \* the text it returned
  ex_reason     \* the terminal reason it returned

extractVars == <<epc, resp, ex_txt, ex_reason>>

VARIABLES
  cand_list,    \* self.model_candidates of the client use_route is called on
  route_name,   \* the argument of the latest use_route call
  route_raised  \* whether that call raised ValueError

routeVars == <<cand_list, route_name, route_raised>>

VARIABLES
  plpc,         \* position of generate_pictures_streaming_policy
  p_att,        \* attempts made in the running stage
  p_stages,     \* history: the stages entered, in order
  p_s1,         \* history: what the flagship streaming stage returned
  p_txt,        \* history: the text the later stages obtained
  p_gen,        \* the chunks of the returned iterator
  p_used,       \* the returned model hint
  p_fails       \* the returned failure log (entry kinds)

policyVars == <<plpc, p_att, p_stages, p_s1, p_txt, p_gen, p_used, p_fails>>

earlyVars == <<clientVars, batchVars, parseVars, hintVars, sharedVars, extractVars,
               routeVars>>

VARIABLES
  sspc,         \* position of event_stream of the round-1 streaming endpoint
  s_gen,        \* the chunks the policy's iterator has still to produce
  s_end,        \* how that iterator ends: "end" or "raise"
  s_made,       \* history: the chunks the iterator has produced
  s_raw,        \* the local `raw`
  s_events      \* the events sent to the client, in order

sseVars == <<sspc, s_gen, s_end, s_made, s_raw, s_events>>

VARIABLES
  cpc,          \* "down", "up" once the application is built, "served"
  cors_origins, \* settings.CORS_ORIGINS
  allow_origins,\* the allow_origins the middleware was added with
  has_cors,     \* whether the middleware was added
  req_origin,   \* the Origin header of the request served
  resp_status,  \* the status of the response
  resp_acao     \* its access-control-allow-origin header

corsVars == <<cpc, cors_origins, allow_origins, has_cors, req_origin,
              resp_status, resp_acao>>

VARIABLES
  mgpc,         \* position of the parallel _run_batches call
  m_pics,       \* the work items of the request
  m_outs,       \* the entries _run_one_batch returns for each batch
  m_pending,    \* the batches whose future has not been collected
  m_order,      \* history: the batches in the order as_completed gave them
  m_all         \* all_keyframes

mergeVars == <<mgpc, m_pics, m_outs, m_pending, m_order, m_all>>

VARIABLES
  rnpc,         \* "idle", "done" once generate_with_fallback has returned
  script,       \* what the backend does at its 1st, 2nd, ... invocation
  r_on_max,     \* on_max_tokens passed to the call
  r_seg_limit,  \* continue_segments passed
  r_ctx,        \* continue_context_chars passed
  r_ret         \* the returned text, model and failure log, with the
                \* invocations made

runVars == <<rnpc, script, r_on_max, r_seg_limit, r_ctx, r_ret>>

lateVars == <<policyVars, sseVars, corsVars, mergeVars, runVars>>

\* the groups the actions of one part leave alone
notPolicy == <<earlyVars, sseVars, corsVars, mergeVars, runVars>>

notSse == <<earlyVars, policyVars, corsVars, mergeVars, runVars>>

notCors == <<earlyVars, policyVars, sseVars, mergeVars, runVars>>

notMerge == <<earlyVars, policyVars, sseVars, corsVars, runVars>>

notRun == <<earlyVars, policyVars, sseVars, corsVars, mergeVars>>

vars == <<earlyVars, lateVars>>

InitClient ==
  /\ fn = "none"
  /\ pc = "idle"
  /\ ci = 1
  /\ attempt = 0
  /\ on_max = "continue"
  /\ seg_limit = 0
  /\ total = << >>
  /\ seg = 0
  /\ failures = << >>
  /\ retText = << >>
  /\ retModel = ""
  /\ called = {}
  /\ gaveUp = {}
  /\ reason1 = "UNKNOWN"
  /\ followUps = [i \in 1..NumCand |-> 0]
  /\ segLog = << >>
  /\ firstOut = [i \in 1..NumCand |-> "untried"]
  /\ evs = << >>
  /\ evEnd = "end"
  /\ held = << >>
  /\ emitted = << >>
  /\ cons = "none"
  /\ opens = [i \in 1..NumCand |-> 0]
  /\ warmUps = [i \in 1..NumCand |-> 0]
  /\ source = << >>
  /\ last = "none"
  /\ patched = {}
  /\ ptxt = << >>

InitBatch ==
  /\ bpc = "idle"
  /\ env = "none"
  /\ pictures = << >>
  /\ order_map = << >>
  /\ batch_size = 1
  /\ max_rounds = 0
  /\ workers = 1
  /\ tier = 0
  /\ pending = << >>
  /\ failed = << >>
  /\ all_keyframes = << >>
  /\ bfailures = << >>
  /\ retry_round = 0
  /\ missing = << >>
  /\ missing_detail = {}
  /\ succeeded = {}
  /\ executed = << >>

NoValue == [k |-> "none", n |-> 0, s |-> << >>, items |-> << >>]

InitParse ==
  /\ ppc = "idle"
  /\ pfn = "none"
  /\ raw_text = << >>
  /\ repair_text = << >>
  /\ parsed_val = NoValue
  /\ batch_out = << >>
  /\ repair_calls = 0
  /\ parse_log = << >>

InitHints ==
  /\ hpc = "idle"
  /\ message = ""
  /\ transient = FALSE

\* the requests served at a time
Requests == 1..MaxRequests

\* the module-level _client of workers/llm/storyboard.py, as constructed
InitShared ==
  /\ model_candidates = Candidates
  /\ rpc = [r \in Requests |-> "idle"]
  /\ rkind = [r \in Requests |-> "none"]
  /\ orig = [r \in Requests |-> << >>]
  /\ att = [r \in Requests |-> 0]
  /\ seen = [r \in Requests |-> {}]

(***************************************************************************)
(* Small pieces of the candidate loops                                     *)
(***************************************************************************)
\* a defect: the loop steps over a candidate
NextIndexSkipping(i) == i + 2

\* `for name in self.model_candidates`: the candidate after index i
NextIndex(i) == i + 1

\* a defect: the result names the last candidate of the route
UsedModelLast(i) == Candidates[NumCand]

\* `return ..., name, failures`: the name of the candidate of this iteration
UsedModel(i) == Candidates[i]

\* a defect: the log is overwritten by the new entry
AppendFailureOverwriting(log, entry) == <<entry>>

\* failures.append(entry)
AppendFailure(log, entry) == Append(log, entry)

\* a defect: permanent errors are retried too
ShouldRetryAlways(i, kind) == i < Retries

\* _call_with_retry: `if i < retries and _is_transient_error(e)`
ShouldRetry(i, kind) == i < Retries /\ kind = "transient"

\* a defect: a STOP answer with text is not taken as final
IsCompleteNever(txt, reason) == FALSE

\* `if reason in FINISH_REASON_STOP and txt.strip()`
IsComplete(txt, reason) == reason \in FINISH_REASON_STOP /\ ~IsBlank(txt)

\* a defect: the loop runs once more than the budget
ContinueGuardOffByOne(s, limit) == s <= limit

\* `while seg < seg_limit`
ContinueGuard(s, limit) == s < limit

\* a defect: the new segment is put in front of the buffer
AppendSegmentInFront(tot, seg_txt) ==
  IF seg_txt # << >> THEN <<seg_txt>> \o tot ELSE tot

\* `if seg_txt: total.append(seg_txt)`
AppendSegment(tot, seg_txt) ==
  IF seg_txt # << >> THEN Append(tot, seg_txt) ELSE tot

\* the failure strings, kept as (candidate, kind, finish reason)
Entry(i, kind, reason) == [name |-> Candidates[i], kind |-> kind, reason |-> reason]

\* an answer as the history keeps it
Seg(o) == [txt |-> o.txt, reason |-> o.reason]

\* how the first request of a candidate ended, for the history
FirstKind(o) ==
  IF o.kind # "resp" THEN o.kind
  ELSE IF o.reason = "STOP" /\ ~IsBlank(o.txt) THEN "stop_text"
  ELSE IF o.reason \in TruncReasons
    THEN IF IsBlank(o.txt) THEN "trunc_empty" ELSE "trunc_text"
  ELSE IF IsBlank(o.txt) THEN "other_empty"
  ELSE "resp"

\* a defect: the repair answer is returned whatever it holds
PatchHasTextAlways(txt) == TRUE

\* `if ptxt.strip()`
PatchHasText(txt) == ~IsBlank(txt)

\* a defect: an answer without text is returned as it is
NeedsPatchNever(txt) == FALSE

\* `if not txt.strip()` after the truncation branch
NeedsPatch(txt) == IsBlank(txt)

\* _call_with_retry: `last = e` for an invocation that raised
LastError(o) == IF o.kind = "resp" THEN "none" ELSE o.kind

\* a defect: a truncated answer without text is handled by the policy
EmptyFirstChunkNever(txt) == FALSE

\* `if not txt.strip()` for a truncated first answer
EmptyFirstChunk(txt) == IsBlank(txt)

\* a defect: policy "return" is not honoured
ReturnsPartialNever(pol) == FALSE

\* `if on_max == "return"`
ReturnsPartial(pol) == pol = "return"

\* first position of the candidate loop of each method
EntryPc(f) ==
  CASE f = "generate" -> "first"
    [] f = "json"     -> "json_call"
    [] f = "stream"   -> "open1"

(***************************************************************************)
(* The assignments shared by the actions of the candidate loops           *)
(***************************************************************************)
\* the call's parameters stay as passed
KeepParams == UNCHANGED <<fn, on_max, seg_limit>>

\* `return txt, name, failures`
Return(txt) ==
  /\ pc' = "done"
  /\ retText' = txt
  /\ retModel' = UsedModel(ci)
  /\ UNCHANGED <<ci, failures, gaveUp>>

\* `failures.append(...); continue`, and `return "", "", failures` after the
\* last candidate
GiveUp(log) ==
  /\ failures' = log
  /\ gaveUp' = gaveUp \cup {ci}
  /\ ci' = NextIndex(ci)
  /\ IF NextIndex(ci) > NumCand
       THEN pc' = "done"
       ELSE pc' = EntryPc(fn)
  /\ UNCHANGED <<retText, retModel>>

\* the per-candidate locals of a fresh loop iteration
FreshIteration ==
  /\ attempt' = 0
  /\ total' = << >>
  /\ seg' = 0
  /\ reason1' = "UNKNOWN"
  /\ segLog' = << >>

\* _call_with_retry sleeps and calls again
RetrySame ==
  /\ attempt' = attempt + 1
  /\ UNCHANGED <<pc, ci, total, seg, reason1, failures, retText, retModel,
                 gaveUp, segLog, firstOut>>

(***************************************************************************)
(* A caller invokes one of the client's methods                            *)
(***************************************************************************)
Call ==
  /\ pc = "idle"
  /\ UNCHANGED <<batchVars, parseVars, hintVars, sharedVars, extractVars, routeVars, lateVars>>
  /\ UNCHANGED retryVars
  /\ \E f \in {"generate", "json", "stream"} :
       /\ fn' = f
       /\ pc' = EntryPc(f)
       /\ IF f = "generate"
            THEN \E pol \in Policies, lim \in 0..MaxSegLimit :
                   on_max' = pol /\ seg_limit' = lim
            ELSE UNCHANGED <<on_max, seg_limit>>
  /\ UNCHANGED <<ci, attempt, total, seg, reason1, failures, retText, retModel,
                 called, gaveUp, followUps, segLog, firstOut, streamVars>>

(***************************************************************************)
(* generate_with_fallback: one backend invocation of the first request of *)
(* the current candidate, and everything the loop body does with it       *)
(***************************************************************************)
GenFirst ==
  /\ fn = "generate" /\ pc = "first"
  /\ UNCHANGED streamVars
  /\ UNCHANGED <<batchVars, parseVars, hintVars, sharedVars, extractVars, routeVars, lateVars>>
  /\ UNCHANGED patched
  /\ ptxt' = << >>
  /\ KeepParams
  /\ called' = called \cup {ci}
  /\ UNCHANGED followUps
  /\ \E o \in Outcomes :
       /\ last' = LastError(o)
       /\ IF o.kind # "resp"
            THEN IF ShouldRetry(attempt, o.kind)
                   THEN RetrySame
                   ELSE /\ GiveUp(AppendFailure(failures, Entry(ci, "EXCEPTION", o.kind)))
                        /\ FreshIteration
                        /\ firstOut' = [firstOut EXCEPT ![ci] = o.kind]
            ELSE
              /\ firstOut' = [firstOut EXCEPT ![ci] = FirstKind(o)]
              /\ IF IsComplete(o.txt, o.reason)
                   THEN /\ Return(o.txt)
                        /\ segLog' = <<Seg(o)>>
                        /\ reason1' = o.reason
                        /\ UNCHANGED <<attempt, total, seg>>
                 ELSE IF o.reason \in TruncReasons
                   THEN IF EmptyFirstChunk(o.txt)
                          THEN /\ GiveUp(AppendFailure(failures,
                                           Entry(ci, "empty_first_chunk", o.reason)))
                               /\ FreshIteration
                        ELSE IF ReturnsPartial(on_max)
                          THEN /\ Return(o.txt)
                               /\ segLog' = <<Seg(o)>>
                               /\ reason1' = o.reason
                               /\ UNCHANGED <<attempt, total, seg>>
                        ELSE IF on_max = "raise"
                          THEN /\ GiveUp(AppendFailure(failures,
                                           Entry(ci, "partial", o.reason)))
                               /\ FreshIteration
                        ELSE IF ContinueGuard(0, seg_limit)
                          THEN /\ pc' = "cont"
                               /\ total' = <<o.txt>>
                               /\ seg' = 0
                               /\ attempt' = 0
                               /\ reason1' = o.reason
                               /\ segLog' = <<Seg(o)>>
                               /\ UNCHANGED <<ci, failures, retText, retModel, gaveUp>>
                          ELSE /\ Return(JoinAll(<<o.txt>>))
                               /\ total' = <<o.txt>>
                               /\ segLog' = <<Seg(o)>>
                               /\ reason1' = o.reason
                               /\ UNCHANGED <<attempt, seg>>
                 ELSE IF NeedsPatch(o.txt)
                   THEN /\ failures' = AppendFailure(failures,
                                         Entry(ci, "empty_text", o.reason))
                        /\ pc' = "patch"
                        /\ attempt' = 0
                        /\ reason1' = o.reason
                        /\ segLog' = <<Seg(o)>>
                        /\ UNCHANGED <<ci, total, seg, retText, retModel, gaveUp>>
                   ELSE /\ Return(o.txt)
                        /\ segLog' = <<Seg(o)>>
                        /\ reason1' = o.reason
                        /\ UNCHANGED <<attempt, total, seg>>

\* the code after the `while` loop, with the buffer tot
AfterLoop(tot) ==
  IF ~IsBlank(JoinAll(tot))
    THEN /\ Return(JoinAll(tot))
         /\ total' = tot
         /\ UNCHANGED <<attempt, seg, reason1>>
    ELSE /\ GiveUp(AppendFailure(failures,
                     Entry(ci, "parts_empty_after_continue", reason1)))
         /\ attempt' = 0
         /\ total' = << >>
         /\ seg' = 0
         /\ reason1' = "UNKNOWN"

(***************************************************************************)
(* generate_with_fallback: one backend invocation of a follow-up request  *)
(* of the continuation loop                                                *)
(***************************************************************************)
GenCont ==
  /\ fn = "generate" /\ pc = "cont"
  /\ UNCHANGED streamVars
  /\ UNCHANGED <<batchVars, parseVars, hintVars, sharedVars, extractVars, routeVars, lateVars>>
  /\ UNCHANGED patched
  /\ ptxt' = << >>
  /\ KeepParams
  /\ UNCHANGED <<called, firstOut>>
  /\ followUps' = [followUps EXCEPT ![ci] = @ + (IF attempt = 0 THEN 1 ELSE 0)]
  /\ \E o \in Outcomes :
       /\ last' = LastError(o)
       /\ IF o.kind # "resp"
            THEN IF ShouldRetry(attempt, o.kind)
                   THEN /\ attempt' = attempt + 1
                        /\ UNCHANGED <<pc, ci, total, seg, reason1, failures, retText,
                                       retModel, gaveUp, segLog>>
                   ELSE /\ GiveUp(AppendFailure(failures, Entry(ci, "EXCEPTION", o.kind)))
                        /\ FreshIteration
            ELSE
              /\ IF o.reason \in FINISH_REASON_STOP
                   THEN IF ~IsBlank(JoinAll(AppendSegment(total, o.txt)))
                          THEN /\ Return(JoinAll(AppendSegment(total, o.txt)))
                               /\ total' = AppendSegment(total, o.txt)
                               /\ segLog' = Append(segLog, Seg(o))
                               /\ UNCHANGED <<attempt, seg, reason1>>
                          ELSE /\ AfterLoop(AppendSegment(total, o.txt))
                               /\ segLog' = << >>
                 ELSE IF o.reason \notin TruncReasons
                   THEN /\ AfterLoop(AppendSegment(total, o.txt))
                        /\ segLog' = IF IsBlank(JoinAll(AppendSegment(total, o.txt)))
                                       THEN << >> ELSE Append(segLog, Seg(o))
                 ELSE IF ContinueGuard(seg + 1, seg_limit)
                   THEN /\ seg' = seg + 1
                        /\ total' = AppendSegment(total, o.txt)
                        /\ segLog' = Append(segLog, Seg(o))
                        /\ attempt' = 0
                        /\ UNCHANGED <<pc, ci, reason1, failures, retText, retModel, gaveUp>>
                   ELSE /\ AfterLoop(AppendSegment(total, o.txt))
                        /\ segLog' = IF IsBlank(JoinAll(AppendSegment(total, o.txt)))
                                       THEN << >> ELSE Append(segLog, Seg(o))

(***************************************************************************)
(* generate_with_fallback: one backend invocation of the repair request   *)
(* sent after an answer without text                                       *)
(***************************************************************************)
GenPatch ==
  /\ fn = "generate" /\ pc = "patch"
  /\ UNCHANGED streamVars
  /\ UNCHANGED <<batchVars, parseVars, hintVars, sharedVars, extractVars, routeVars, lateVars>>
  /\ patched' = patched \cup {ci}
  /\ KeepParams
  /\ UNCHANGED <<called, firstOut, followUps>>
  /\ \E o \in Outcomes :
       /\ last' = LastError(o)
       /\ ptxt' = IF o.kind = "resp" THEN o.txt ELSE << >>
       /\ IF o.kind # "resp"
            THEN IF ShouldRetry(attempt, o.kind)
                   THEN RetrySame
                   ELSE /\ GiveUp(AppendFailure(failures,
                                    Entry(ci, "patch_retry_exception", o.kind)))
                        /\ FreshIteration
            ELSE IF PatchHasText(o.txt)
              THEN /\ Return(o.txt)
                   /\ segLog' = <<Seg(o)>>
                   /\ UNCHANGED <<attempt, total, seg, reason1>>
              ELSE /\ GiveUp(AppendFailure(failures,
                               Entry(ci, "patch_empty_text", o.reason)))
                   /\ FreshIteration

(***************************************************************************)
(* generate_json: one backend invocation for the current candidate        *)
(***************************************************************************)
JsonCall ==
  /\ fn = "json" /\ pc = "json_call"
  /\ UNCHANGED streamVars
  /\ UNCHANGED <<batchVars, parseVars, hintVars, sharedVars, extractVars, routeVars, lateVars>>
  /\ UNCHANGED patched
  /\ ptxt' = << >>
  /\ KeepParams
  /\ called' = called \cup {ci}
  /\ UNCHANGED followUps
  /\ \E o \in JsonOutcomes :
       /\ last' = LastError(o)
       /\ IF o.kind # "resp"
            THEN IF ShouldRetry(attempt, o.kind)
                   THEN RetrySame
                   ELSE /\ GiveUp(AppendFailure(failures, Entry(ci, "EXCEPTION", o.kind)))
                        /\ FreshIteration
                        /\ firstOut' = [firstOut EXCEPT ![ci] = o.kind]
            ELSE
              /\ firstOut' = [firstOut EXCEPT ![ci] = FirstKind(o)]
              /\ IF ~IsBlank(o.txt)
                   THEN IF JsonLoadsOk(o.txt)
                          THEN /\ Return(o.txt)
                               /\ segLog' = <<Seg(o)>>
                               /\ UNCHANGED <<attempt, total, seg, reason1>>
                          ELSE /\ GiveUp(AppendFailure(failures,
                                           Entry(ci, "JSON_PARSE_FAIL", o.reason)))
                               /\ FreshIteration
                   ELSE /\ GiveUp(AppendFailure(failures,
                                    Entry(ci, "JSON_EMPTY", o.reason)))
                        /\ FreshIteration

(***************************************************************************)
(* stream_with_fallback.  An underlying stream delivers events and then    *)
(* ends or raises; an event is written as its text, the empty text for an  *)
(* event without text.  try_stream_once yields the non-empty texts.        *)
(***************************************************************************)
\* how an underlying stream behaves once its events are delivered
StreamEndings == {"end", "permanent", "transient"}

\* the behaviours of one underlying stream
Streams == [events : SeqsUpTo(Texts, MaxEvents), ending : StreamEndings]

\* the chunks try_stream_once yields for a sequence of events
NonEmptyChunks(q) == SelectSeq(q, LAMBDA t : t # << >>)

\* the positions of the events that carry text
ChunkPos(q) == {i \in 1..Len(q) : q[i] # << >>}

\* the chunk `for first in gen: break` obtains
FirstChunk(q) == q[MinOf(ChunkPos(q))]

\* the events not fetched when the peek has obtained its chunk
AfterPeek(q) == SubSeq(q, MinOf(ChunkPos(q)) + 1, Len(q))

\* how the peek at a fresh underlying stream ends
PeekKind(u) ==
  IF ChunkPos(u.events) # {} THEN "chunk"
  ELSE IF u.ending = "end" THEN "no_events"
  ELSE u.ending

\* a defect: the peeked chunk is not handed to the consumer
HeldAfterPeekLost(first) == << >>

\* re1 / re2 / rechain: `yield first` before the rest of the stream
HeldAfterPeek(first) == <<first>>

\* a defect: the stream is reopened again and again
AfterNoEventsReopening(n) == "open2"

\* try_stream: where control goes when the n-th open of a candidate yields
\* no chunk: the reopen after the first, RuntimeError("stream_no_events") and
\* with it the warm-up after the second
AfterNoEvents(n) == IF n = 1 THEN "open2" ELSE "warm"

\* a defect: the generator runs on after the consumer has stopped
MayFetchAfterStop(c) == c \in {"open", "stopped"}

\* a generator runs only while its consumer asks for the next element
MayFetch(c) == c = "open"

\* `return rechain(), name, failures` for the underlying stream u
StreamSucceeds(u) ==
  /\ Return(<< >>)
  /\ held' = HeldAfterPeek(FirstChunk(u.events))
  /\ evs' = AfterPeek(u.events)
  /\ evEnd' = u.ending
  /\ source' = NonEmptyChunks(u.events)
  /\ cons' = "open"
  /\ UNCHANGED <<emitted, warmUps, segLog>>

\* the peek raised: failures.append(STREAM_FAIL), then the warm-up
StreamFails(why) ==
  /\ failures' = AppendFailure(failures, Entry(ci, "STREAM_FAIL", why))
  /\ pc' = "warm"
  /\ UNCHANGED <<ci, retText, retModel, gaveUp, segLog>>
  /\ UNCHANGED <<evs, evEnd, held, emitted, cons, warmUps, source>>

\* try_stream: gen1 = try_stream_once(name) and the peek at it
StreamOpen1 ==
  /\ fn = "stream" /\ pc = "open1"
  /\ UNCHANGED <<batchVars, parseVars, hintVars, sharedVars, extractVars, routeVars, lateVars>>
  /\ UNCHANGED retryVars
  /\ KeepParams
  /\ called' = called \cup {ci}
  /\ opens' = [opens EXCEPT ![ci] = @ + 1]
  /\ UNCHANGED <<followUps, attempt, total, seg, reason1>>
  /\ \E u \in Streams :
       /\ firstOut' = [firstOut EXCEPT ![ci] = PeekKind(u)]
       /\ CASE PeekKind(u) = "chunk" -> StreamSucceeds(u)
            [] PeekKind(u) = "no_events" ->
                 /\ pc' = AfterNoEvents(1)
                 /\ UNCHANGED <<ci, failures, retText, retModel, gaveUp, segLog>>
                 /\ UNCHANGED <<evs, evEnd, held, emitted, cons, warmUps, source>>
            [] OTHER -> StreamFails(PeekKind(u))

\* try_stream after time.sleep(0.15): gen2 = try_stream_once(name) and the peek
StreamOpen2 ==
  /\ fn = "stream" /\ pc = "open2"
  /\ UNCHANGED <<batchVars, parseVars, hintVars, sharedVars, extractVars, routeVars, lateVars>>
  /\ UNCHANGED retryVars
  /\ KeepParams
  /\ opens' = [opens EXCEPT ![ci] = @ + 1]
  /\ UNCHANGED <<called, followUps, attempt, total, seg, reason1, firstOut>>
  /\ \E u \in Streams :
       CASE PeekKind(u) = "chunk" -> StreamSucceeds(u)
         [] PeekKind(u) = "no_events" /\ AfterNoEvents(2) # "warm" ->
              /\ pc' = AfterNoEvents(2)
              /\ UNCHANGED <<ci, failures, retText, retModel, gaveUp, segLog>>
              /\ UNCHANGED <<evs, evEnd, held, emitted, cons, warmUps, source>>
         [] OTHER -> StreamFails(PeekKind(u))

\* non_stream_once(name), run by the `except` branch of the candidate loop
StreamWarmUp ==
  /\ fn = "stream" /\ pc = "warm"
  /\ UNCHANGED <<batchVars, parseVars, hintVars, sharedVars, extractVars, routeVars, lateVars>>
  /\ UNCHANGED retryVars
  /\ KeepParams
  /\ warmUps' = [warmUps EXCEPT ![ci] = @ + 1]
  /\ UNCHANGED <<called, followUps, firstOut, opens, emitted>>
  /\ \E o \in Outcomes :
       IF o.kind = "resp" /\ ~IsBlank(o.txt)
         THEN /\ Return(<< >>)
              /\ held' = <<o.txt>>
              /\ evs' = << >>
              /\ evEnd' = "end"
              /\ source' = << >>
              /\ cons' = "open"
              /\ UNCHANGED <<attempt, total, seg, reason1, segLog>>
         ELSE /\ GiveUp(AppendFailure(failures,
                          Entry(ci, "NON_STREAM_FAIL",
                                IF o.kind = "resp" THEN "single_shot_empty" ELSE o.kind)))
              /\ FreshIteration
              /\ cons' = IF NextIndex(ci) > NumCand THEN "open" ELSE cons
              /\ UNCHANGED <<evs, evEnd, held, source>>

\* what the stream actions of the consumer leave alone
ConsumerKeeps ==
  UNCHANGED <<fn, pc, ci, attempt, on_max, seg_limit, total, seg, reason1,
              failures, retText, retModel, called, gaveUp, followUps, segLog,
              firstOut, opens, warmUps, source, evEnd>>

\* the consumer asks the returned sequence for its next element: the held
\* chunk if there is one, else the next non-empty chunk of the underlying
\* stream; the sequence ends, or raises, with the underlying stream
ConsumerNext ==
  /\ fn = "stream" /\ pc = "done"
  /\ MayFetch(cons)
  /\ UNCHANGED <<batchVars, parseVars, hintVars, sharedVars, extractVars, routeVars, lateVars>>
  /\ UNCHANGED retryVars
  /\ ConsumerKeeps
  /\ IF held # << >>
       THEN /\ emitted' = emitted \o held
            /\ held' = << >>
            /\ UNCHANGED <<evs, cons>>
     ELSE IF ChunkPos(evs) # {}
       THEN /\ emitted' = Append(emitted, FirstChunk(evs))
            /\ evs' = AfterPeek(evs)
            /\ UNCHANGED <<held, cons>>
       ELSE /\ evs' = << >>
            /\ cons' = IF cons = "stopped" THEN cons
                       ELSE IF evEnd = "end" THEN "ended" ELSE "raised"
            /\ UNCHANGED <<held, emitted>>

\* the consumer stops iterating
ConsumerStop ==
  /\ fn = "stream" /\ pc = "done"
  /\ cons = "open"
  /\ cons' = "stopped"
  /\ UNCHANGED <<batchVars, parseVars, hintVars, sharedVars, extractVars, routeVars, lateVars>>
  /\ UNCHANGED retryVars
  /\ ConsumerKeeps
  /\ UNCHANGED <<evs, held, emitted>>

NextClient ==
  \/ Call
  \/ GenFirst
  \/ GenCont
  \/ GenPatch
  \/ JsonCall
  \/ StreamOpen1
  \/ StreamOpen2
  \/ StreamWarmUp
  \/ ConsumerNext
  \/ ConsumerStop

\* a response without candidates and without text
NoResp == [text |-> << >>, cands |-> << >>]

InitExtract ==
  /\ epc = "idle"
  /\ resp = NoResp
  /\ ex_txt = << >>
  /\ ex_reason = "UNKNOWN"

\* ROUTES["longform"], the default of the constructor
LongformRoute ==
  <<"models/gemini-2.5-pro", "models/gemini-2.5-flash", "models/gemini-1.5-pro-latest">>

InitRoute ==
  /\ cand_list = LongformRoute
  /\ route_name = ""
  /\ route_raised = FALSE

\* no stage has returned anything
NoGen == [returned |-> FALSE, gen |-> << >>]

InitPolicy ==
  /\ plpc = "idle"
  /\ p_att = 0
  /\ p_stages = << >>
  /\ p_s1 = NoGen
  /\ p_txt = << >>
  /\ p_gen = << >>
  /\ p_used = ""
  /\ p_fails = << >>

InitSse ==
  /\ sspc = "idle"
  /\ s_gen = << >>
  /\ s_end = "end"
  /\ s_made = << >>
  /\ s_raw = << >>
  /\ s_events = << >>

\* a header that is not there
NoHeader == [present |-> FALSE, value |-> ""]

InitCors ==
  /\ cpc = "down"
  /\ cors_origins = ""
  /\ allow_origins = << >>
  /\ has_cors = FALSE
  /\ req_origin = NoHeader
  /\ resp_status = 0
  /\ resp_acao = NoHeader

InitMerge ==
  /\ mgpc = "idle"
  /\ m_pics = << >>
  /\ m_outs = << >>
  /\ m_pending = {}
  /\ m_order = << >>
  /\ m_all = << >>

\* nothing returned yet
NoReturn == [txt |-> << >>, used |-> "", fails |-> << >>, calls |-> << >>]

InitRun ==
  /\ rnpc = "idle"
  /\ script = << >>
  /\ r_on_max = "continue"
  /\ r_seg_limit = 0
  /\ r_ctx = 0
  /\ r_ret = NoReturn

InitLate == InitPolicy /\ InitSse /\ InitCors /\ InitMerge /\ InitRun

InitRest ==
  /\ InitClient /\ InitBatch /\ InitParse /\ InitHints /\ InitShared /\ InitExtract
  /\ InitLate

Init == InitRest /\ InitRoute

SpecClient == Init /\ [][NextClient]_vars

(***************************************************************************)
(* Properties of the candidate loops                                       *)
(***************************************************************************)
\* the texts of the answers the current candidate gave, in call order
SegTexts == [i \in 1..Len(segLog) |-> segLog[i].txt]

\* C1: in generate_with_fallback, when the first answer of the first
\* candidate is STOP with non-whitespace text, the call returns that text,
\* names the first candidate, returns an empty failure log and has called no
\* other candidate.
C1_FirstStopReturnsFirst ==
  (fn = "generate" /\ firstOut[1] = "stop_text") =>
     /\ pc = "done"
     /\ retText = segLog[1].txt
     /\ retModel = Candidates[1]
     /\ failures = << >>
     /\ called = {1}

\* the first candidate answered STOP with text after two transient errors
C1_Witness ==
  /\ fn = "generate" /\ pc = "done"
  /\ firstOut[1] = "stop_text"
  /\ attempt = 2
  /\ retText = <<"x">>

\* C2: generate_with_fallback, generate_json and stream_with_fallback try the
\* candidates strictly in list order: a candidate has been called only if
\* every earlier candidate was called and given up before, and when a
\* candidate has yielded the result no later candidate has been called.
C2_StrictCandidateOrder ==
  /\ \A i \in called : \A j \in 1..(i - 1) : j \in called /\ j \in gaveUp
  /\ \A i \in gaveUp : i \in called
  /\ pc # "done" => (called \subseteq 1..ci /\ gaveUp = 1..(ci - 1))
  /\ (pc = "done" /\ retModel # "") =>
        /\ retModel = Candidates[ci]
        /\ called = 1..ci
        /\ gaveUp = 1..(ci - 1)
  /\ (pc = "done" /\ retModel = "") => gaveUp = 1..NumCand

\* the third candidate yields the result of a streaming call after the first
\* two were given up
C2_Witness ==
  /\ fn = "stream" /\ pc = "done"
  /\ retModel = Candidates[3]
  /\ gaveUp = {1, 2}

\* C3: if candidates 1..k-1 each raise a non-transient error and candidate k
\* answers STOP with non-empty text T, generate_with_fallback returns T, names
\* candidate k, and the log holds exactly the k-1 EXCEPTION entries of the
\* earlier candidates in candidate order.
C3_ExceptionsThenStop ==
  \A k \in 1..NumCand :
    ( /\ fn = "generate"
      /\ \A i \in 1..(k - 1) : firstOut[i] = "permanent"
      /\ firstOut[k] = "stop_text" ) =>
       /\ pc = "done"
       /\ retText = segLog[1].txt
       /\ retModel = Candidates[k]
       /\ failures = [i \in 1..(k - 1) |-> Entry(i, "EXCEPTION", "permanent")]

\* candidates 1 and 2 raised a non-transient error and candidate 3 answered
\* STOP with text
C3_Witness ==
  /\ fn = "generate" /\ pc = "done"
  /\ firstOut = <<"permanent", "permanent", "stop_text">>
  /\ Len(failures) = 2

\* C4: under policy "continue" the text returned after a continuation is
\* the first text followed by the text of every follow-up in call order, and
\* no answer before the last one reported STOP.
C4_ContinuationConcatenates ==
  ( /\ fn = "generate" /\ pc = "done" /\ retModel # ""
    /\ followUps[ci] >= 1 ) =>
       /\ on_max = "continue"
       /\ retText = JoinAll(SegTexts)
       /\ Len(segLog) = followUps[ci] + 1
       /\ \A i \in 1..(Len(segLog) - 1) : segLog[i].reason # "STOP"

\* a truncated first text "x" and two follow-ups " " (truncated) and "x"
\* (STOP) were merged
C4_Witness ==
  /\ fn = "generate" /\ pc = "done" /\ retModel # ""
  /\ Len(segLog) = 3
  /\ segLog[1].txt = <<"x">> /\ segLog[2].txt = <<" ">> /\ segLog[3].txt = <<"x">>
  /\ segLog[3].reason = "STOP"
  /\ retText = <<"x", " ", "x">>

\* C5: the number of follow-up requests issued to a candidate never exceeds
\* the segment budget of the call; with a budget of 0 there is none.
C5_FollowUpsWithinBudget ==
  \A i \in 1..NumCand : followUps[i] <= seg_limit

\* a candidate used up the whole budget of the call
C5_Witness ==
  /\ fn = "generate" /\ pc = "done" /\ retModel # ""
  /\ seg_limit = MaxSegLimit
  /\ followUps[ci] = seg_limit

\* the kinds of the failure entries of candidate i, in log order
EntryKinds(i) ==
  LET own == SelectSeq(failures, LAMBDA e : e.name = Candidates[i])
  IN [k \in 1..Len(own) |-> own[k].kind]

\* C13: per candidate, stream_with_fallback opens a stream, reopens it once
\* when the first open ended without a chunk, records a stream failure when
\* no chunk was obtained and then makes one warm-up call, and passes to the
\* next candidate only when the warm-up failed too.  A candidate sees at most
\* 2 opens and 1 warm-up; the result names the first candidate that gave a
\* chunk or a warm-up text; when all fail the sequence is empty, the model
\* name is "" and the log holds a stream failure and a warm-up failure for
\* every candidate.
C13_StreamOrder ==
  fn = "stream" =>
    /\ \A i \in 1..NumCand :
         /\ opens[i] <= 2 /\ warmUps[i] <= 1
         /\ (i \in called) <=> (opens[i] >= 1)
         /\ opens[i] = 2 => firstOut[i] = "no_events"
         /\ (firstOut[i] = "no_events" /\ ~(ci = i /\ pc = "open2")) => opens[i] = 2
         /\ warmUps[i] = 1 =>
              (opens[i] >= 1 /\ Len(EntryKinds(i)) >= 1 /\ EntryKinds(i)[1] = "STREAM_FAIL")
         /\ (ci = i /\ pc = "warm") => (warmUps[i] = 0 /\ EntryKinds(i) = <<"STREAM_FAIL">>)
         /\ i \in gaveUp =>
              (warmUps[i] = 1 /\ EntryKinds(i) = <<"STREAM_FAIL", "NON_STREAM_FAIL">>)
         /\ i > ci => (opens[i] = 0 /\ warmUps[i] = 0)
    /\ (pc = "done" /\ retModel # "") =>
         /\ retModel = Candidates[ci]
         /\ gaveUp = 1..(ci - 1)
         /\ IF warmUps[ci] = 0
              THEN source # << >> /\ EntryKinds(ci) = << >>
              ELSE /\ source = << >> /\ EntryKinds(ci) = <<"STREAM_FAIL">>
                   /\ Len(emitted \o held) = 1
                   /\ ~IsBlank((emitted \o held)[1])
    /\ (pc = "done" /\ retModel = "") =>
         /\ gaveUp = 1..NumCand
         /\ held = << >> /\ evs = << >> /\ emitted = << >>
         /\ cons \in {"open", "stopped", "ended"}
         /\ Len(failures) = 2 * NumCand

\* every candidate was opened twice and warmed up once, and all failed
C13_Witness ==
  /\ fn = "stream" /\ pc = "done" /\ retModel = ""
  /\ \A i \in 1..NumCand : opens[i] = 2 /\ warmUps[i] = 1
  /\ cons = "ended"

\* C14: the chunks the consumer receives from a successful stream are, in
\* order and without loss or duplication, the non-empty chunks of the
\* underlying stream that succeeded; the chunk the peeks consumed comes
\* first, once.
C14_ChunksRechained ==
  (fn = "stream" /\ pc = "done" /\ retModel # "" /\ warmUps[ci] = 0) =>
     /\ emitted \o held \o NonEmptyChunks(evs) = source
     /\ cons \in {"ended", "raised"} => emitted = source
     /\ emitted # << >> => emitted[1] = source[1]

\* the reopened stream of the second candidate delivered an event without
\* text and two different chunks, and the consumer has drained it
C14_Witness ==
  /\ fn = "stream" /\ pc = "done" /\ ci = 2
  /\ opens[ci] = 2 /\ warmUps[ci] = 0
  /\ cons = "ended"
  /\ Len(emitted) = MaxEvents
  /\ emitted[1] # emitted[2]

\* C15 (step): a step taken after the consumer has stopped fetches no event
\* and makes no open, no warm-up call and no call to another candidate.
C15_StepAfterStop ==
  cons = "stopped" => UNCHANGED <<evs, held, emitted, opens, warmUps, called, ci, pc>>

\* C15: once the consumer stops iterating the returned sequence, no further
\* backend activity occurs.
C15_NoActivityAfterStop == [][C15_StepAfterStop]_vars

\* the consumer stopped after the first chunk while the stream has more
C15_Witness ==
  /\ fn = "stream" /\ cons = "stopped"
  /\ Len(emitted) = 1
  /\ NonEmptyChunks(evs) # << >>

\* the positions where a step is one invocation made by _call_with_retry
RetryPcs == {"first", "cont", "patch", "json_call"}

\* the entry written for an error that _call_with_retry raised at position p
RaisedKind(p) == IF p = "patch" THEN "patch_retry_exception" ELSE "EXCEPTION"

\* the step raises error e out of _call_with_retry: the candidate loop logs
\* it for the current candidate and passes to the next one
RaisedToLoop(e) ==
  /\ failures' = Append(failures, Entry(ci, RaisedKind(pc), e))
  /\ gaveUp' = gaveUp \cup {ci}
  /\ ci' = ci + 1
  /\ attempt' = 0

C17_RetryStep ==
  pc \in RetryPcs =>
    /\ attempt <= Retries /\ attempt' <= Retries
    /\ attempt' = attempt + 1 <=> (last' = "transient" /\ attempt < Retries)
    /\ attempt' = attempt + 1 => UNCHANGED <<pc, ci, failures, gaveUp, retModel>>
    /\ last' = "permanent" => RaisedToLoop("permanent")
    /\ (last' = "transient" /\ attempt = Retries) => RaisedToLoop("transient")
    /\ last' = "none" => attempt' \in {0, attempt}

\* C17: _call_with_retry invokes the backend again only after a transient
\* error and only while fewer than Retries re-invocations were made (the
\* loop index never exceeds Retries, so at most Retries + 1 invocations); a
\* non-transient error is raised to the candidate loop by the invocation
\* that met it, without a further invocation, and a transient error of the
\* last allowed invocation is raised to the candidate loop as well.
C17_RetryOnlyTransient == [][C17_RetryStep]_vars

\* candidate 1 was given up for a transient error, which takes Retries + 1
\* failed invocations, and candidate 2 for a non-transient one
C17_Witness ==
  /\ fn = "generate"
  /\ Len(failures) >= 2
  /\ failures[1] = Entry(1, "EXCEPTION", "transient")
  /\ failures[2] = Entry(2, "EXCEPTION", "permanent")

\* C18: under policy "continue", no result is returned for a candidate one
\* of whose follow-up requests answered with empty text.
C18_EmptyFollowUpGivesUp ==
  (fn = "generate" /\ pc = "done" /\ retModel # "" /\ on_max = "continue") =>
     \A i \in 2..Len(segLog) : segLog[i].txt # << >>

\* candidate i is behind the loop and the next candidate, if any, is tried
NextCandidateTried(i) ==
  /\ i \in gaveUp
  /\ i < NumCand => (i + 1 \in called \/ (ci = i + 1 /\ pc = "first"))
  /\ i = NumCand => (pc = "done" /\ retModel = "")

\* C19: a candidate whose first answer is MAX_TOKENS or UNKNOWN without text
\* gets exactly one failure entry (empty_first_chunk), is sent neither a
\* follow-up nor the repair request, and the next candidate is tried,
\* whatever on_max_tokens is.
C19_EmptyTruncatedFirst ==
  \A i \in 1..NumCand :
    (fn = "generate" /\ firstOut[i] = "trunc_empty") =>
       /\ EntryKinds(i) = <<"empty_first_chunk">>
       /\ followUps[i] = 0
       /\ i \notin patched
       /\ NextCandidateTried(i)

\* under policy "return" the first candidate answered truncated without
\* text and the second candidate yielded the result
C19_Witness ==
  /\ fn = "generate" /\ pc = "done" /\ on_max = "return"
  /\ firstOut[1] = "trunc_empty"
  /\ retModel = Candidates[2]

\* C20: for a first answer MAX_TOKENS or UNKNOWN with text, policy "return"
\* returns that text and names the candidate, policy "raise" records one
\* failure entry (partial) and tries the next candidate, and neither policy
\* sends a follow-up request.
C20_ReturnAndRaisePolicies ==
  \A i \in 1..NumCand :
    (fn = "generate" /\ firstOut[i] = "trunc_text") =>
       /\ on_max = "return" =>
            /\ pc = "done" /\ ci = i
            /\ retModel = Candidates[i]
            /\ Len(segLog) = 1
            /\ retText = segLog[1].txt
            /\ segLog[1].reason \in TruncReasons
            /\ ~IsBlank(retText)
            /\ EntryKinds(i) = << >>
            /\ followUps[i] = 0
       /\ on_max = "raise" =>
            /\ EntryKinds(i) = <<"partial">>
            /\ NextCandidateTried(i)
            /\ i \notin patched
            /\ followUps[i] = 0

\* under policy "raise" the first candidate answered truncated with text and
\* was given up; under the same policy the second candidate did so too
C20_Witness ==
  /\ fn = "generate" /\ on_max = "raise"
  /\ firstOut[1] = "trunc_text" /\ firstOut[2] = "trunc_text"
  /\ Len(failures) = 2

\* what holds of a candidate i whose first answer had a reason other than
\* MAX_TOKENS/UNKNOWN and no text
C21_State(i) ==
  /\ i \in called /\ followUps[i] = 0
  /\ \/ /\ ci = i /\ pc = "patch"
        /\ EntryKinds(i) = <<"empty_text">>
     \/ /\ ci = i /\ pc = "done" /\ retModel = Candidates[i]
        /\ i \in patched
        /\ ~IsBlank(retText)
        /\ EntryKinds(i) = <<"empty_text">>
     \/ /\ i \in patched
        /\ EntryKinds(i) \in {<<"empty_text", "patch_empty_text">>,
                              <<"empty_text", "patch_retry_exception">>}
        /\ NextCandidateTried(i)

\* the steps that enter, repeat or leave the repair request
C21_Step ==
  /\ (pc' = "patch" /\ pc # "patch") =>
        /\ pc = "first" /\ ci' = ci /\ ci \notin patched
        /\ firstOut'[ci] = "other_empty"
  /\ pc = "patch" =>
        /\ patched' = patched \cup {ci}
        /\ pc' = "patch" => (attempt' = attempt + 1 /\ last' = "transient")
        /\ (last' = "none" /\ ~IsBlank(ptxt')) =>
              /\ pc' = "done" /\ ci' = ci
              /\ retText' = ptxt' /\ retModel' = Candidates[ci]
              /\ failures' = failures
        /\ (last' = "none" /\ IsBlank(ptxt')) =>
              /\ \E r \in Reasons :
                   failures' = Append(failures, Entry(ci, "patch_empty_text", r))
              /\ gaveUp' = gaveUp \cup {ci} /\ ci' = ci + 1
        /\ (last' # "none" /\ pc' # "patch") => RaisedToLoop(last')

\* C21: a candidate whose first answer has a finish reason other than
\* MAX_TOKENS/UNKNOWN and no text is sent the repair request once: a repair
\* answer with text is returned and names that candidate, a repair answer
\* without text or a repair error adds a failure entry and passes to the next
\* candidate, and the repair request is never sent a second time.
C21_RepairOnce ==
  /\ [](\A i \in 1..NumCand :
          (fn = "generate" /\ firstOut[i] = "other_empty") => C21_State(i))
  /\ [][C21_Step]_vars

\* the first candidate answered without text twice (first request and
\* repair), the second answered the repair request with text
C21_Witness ==
  /\ fn = "generate" /\ pc = "done"
  /\ firstOut[1] = "other_empty" /\ firstOut[2] = "other_empty"
  /\ patched = {1, 2}
  /\ retModel = Candidates[2] /\ retText = ptxt /\ ~IsBlank(ptxt)

\* what holds of the result of generate_with_fallback
C22_Result ==
  /\ retModel = "" <=> retText = << >>
  /\ retModel = "" =>
        /\ called = 1..NumCand /\ gaveUp = 1..NumCand
        /\ \A i \in 1..NumCand : EntryKinds(i) # << >>
  /\ retModel # "" => ~IsBlank(retText)

\* the log after a step starts with the log before it
C22_LogGrows ==
  fn = "generate" =>
    /\ Len(failures') >= Len(failures)
    /\ SubSeq(failures', 1, Len(failures)) = failures

\* C22: generate_with_fallback returns the model name "" exactly when it
\* returns the empty text; it does so only when every candidate was called
\* and given up, and then the log holds an entry of every candidate; a
\* result that names a model has text that is not whitespace; no step
\* removes an entry from the log.
C22_EmptyModelIffEmptyText ==
  /\ []((fn = "generate" /\ pc = "done") => C22_Result)
  /\ [][C22_LogGrows]_vars

\* every candidate was given up, the first after a repair request without
\* text, so that the log holds four entries
C22_Witness ==
  /\ fn = "generate" /\ pc = "done"
  /\ retModel = "" /\ retText = << >>
  /\ EntryKinds(1) = <<"empty_text", "patch_empty_text">>
  /\ Len(failures) = NumCand + 1

(***************************************************************************)
(* Batched key-frame generation (workers/llm/storyboard.py)                *)
(*                                                                         *)
(* Identifiers are JSON values: absent/falsy, a string, or an integer.    *)
(* StrId(n) for n < 10 is the string "S00n", IntId(n) the integer n, and  *)
(* StrId(10 + n) the string of the digits of n.                            *)
(***************************************************************************)
NoneId == [t |-> "none", v |-> 0]

StrId(n) == [t |-> "str", v |-> n]

IntId(n) == [t |-> "int", v |-> n]

\* truth value of an identifier: `if x.get("shot_id")`
Truthy(id) == id.t # "none"

\* str(x)
StrOf(id) == IF id.t = "int" THEN StrId(10 + id.v) ELSE StrId(id.v)

\* f"S{idx+1:03d}" for the shot at (1-based) position i
SynthId(i) == StrId(i)

\* the position given to identifiers the order map does not know
BigPos == 1000000000

\* the set of elements of a sequence
Range(q) == {q[i] : i \in 1..Len(q)}

RECURSIVE OrderFrom(_, _, _)
\* the loop of _shot_order_map from position i on, acc being `order`
OrderFrom(pics, i, acc) ==
  IF i > Len(pics) THEN acc
  ELSE LET sid == StrOf(IF Truthy(pics[i].shot_id) THEN pics[i].shot_id
                        ELSE SynthId(i))
       IN OrderFrom(pics, i + 1, IF sid \in Range(acc) THEN acc ELSE Append(acc, sid))

\* _shot_order_map: the identifiers in order of first occurrence; the value
\* order[sid] is the position in this sequence, counted from 0
ShotOrderMap(pics) == OrderFrom(pics, 1, << >>)

\* order_map.get(sid, 10**9)
OrderGet(order, sid) ==
  IF \E i \in 1..Len(order) : order[i] = sid
    THEN (CHOOSE i \in 1..Len(order) : order[i] = sid) - 1
    ELSE BigPos

\* all_shots = [s for s in pictures_json if s.get("shot_id")]
AllShots(pics) == SelectSeq(pics, LAMBDA sh : Truthy(sh.shot_id))

\* shot_ids_input = [s["shot_id"] for s in all_shots]
ShotIdsInput(pics) == [i \in 1..Len(AllShots(pics)) |-> AllShots(pics)[i].shot_id]

\* a defect: the items after the last full batch are dropped
ChunkListFullOnly(items, n) ==
  [k \in 1..(Len(items) \div n) |-> SubSeq(items, (k - 1) * n + 1, k * n)]

\* _chunk_list(items, n)
ChunkList(items, n) ==
  [k \in 1..((Len(items) + n - 1) \div n) |->
     SubSeq(items, (k - 1) * n + 1, IF k * n < Len(items) THEN k * n ELSE Len(items))]

\* max(1, int(batch_size))
EffBatchSize(bs) == IF bs < 1 THEN 1 ELSE bs

\* _normalize_keyframe: out["frame_idx"] = int(out.get("frame_idx") or 1),
\* and 1 when int() raises
NormFrame(raw) ==
  CASE raw.t = "none" -> 1
    [] raw.t = "int"  -> IF raw.v = 0 THEN 1 ELSE raw.v
    [] raw.t = "str"  -> raw.v
    [] OTHER          -> 1

\* _normalize_keyframe
NormalizeKeyframe(x) ==
  [shot_id |-> x.shot_id, frame_idx |-> NormFrame(x.frame), ph |-> FALSE,
   promptv |-> 0]

\* _run_one_batch: [_normalize_keyframe(x) for x in parsed if ... x.get("shot_id")]
ParsedOf(rawlist) ==
  LET kept == SelectSeq(rawlist, LAMBDA x : Truthy(x.shot_id))
  IN [i \in 1..Len(kept) |-> NormalizeKeyframe(kept[i])]

\* a defect: the key ignores frame_idx
SortKeyShotOnly(order, kf) == <<OrderGet(order, StrOf(kf.shot_id)), 1>>

\* _sort_key_for
SortKeyFor(order, kf) ==
  <<OrderGet(order, StrOf(kf.shot_id)),
    IF kf.frame_idx = 0 THEN 1 ELSE kf.frame_idx>>

\* comparison of two keys (Python tuple order)
KeyLeq(a, b) == a[1] < b[1] \/ (a[1] = b[1] /\ a[2] <= b[2])

\* one step of a stable sort: x goes behind every element whose key is not
\* greater than its own
InsertSorted(order, sorted, x) ==
  LET n == Cardinality({i \in 1..Len(sorted) :
                          KeyLeq(SortKeyFor(order, sorted[i]), SortKeyFor(order, x))})
  IN SubSeq(sorted, 1, n) \o <<x>> \o SubSeq(sorted, n + 1, Len(sorted))

RECURSIVE SortFrom(_, _, _)
SortFrom(order, q, acc) ==
  IF q = << >> THEN acc
  ELSE SortFrom(order, Tail(q), InsertSorted(order, acc, Head(q)))

\* _sort_all: all_keyframes.sort(key=...), a stable sort
SortAll(order, q) == SortFrom(order, q, << >>)

\* covered()
Covered(all) == {StrOf(all[i].shot_id) : i \in 1..Len(all)}

\* missing = [sid for sid in shot_ids_input if sid not in covered()]
MissingIds(pics, all) ==
  SelectSeq(ShotIdsInput(pics), LAMBDA sid : sid \notin Covered(all))

\* _placeholder_from_shot
PlaceholderFromShot(shot) ==
  [shot_id |-> StrOf(shot.shot_id), frame_idx |-> 1, ph |-> TRUE,
   promptv |-> shot.promptv]

\* a defect: the placeholder is built from the bare identifier
ShotForBare(pics, sid) == [shot_id |-> sid, promptv |-> 0]

\* next((s for s in all_shots if s["shot_id"] == sid), {"shot_id": sid}); the
\* fields promptv and seed of a work item are written as its position in
\* pictures_json, 0 standing for the defaults
ShotFor(pics, sid) ==
  LET own == {i \in 1..Len(pics) : Truthy(pics[i].shot_id) /\ pics[i].shot_id = sid}
  IN [shot_id |-> sid, promptv |-> IF own = {} THEN 0 ELSE MinOf(own)]

\* a defect: only the first missing identifier gets a placeholder
PlaceholdersFirstOnly(pics, miss) ==
  IF miss = << >> THEN << >> ELSE <<PlaceholderFromShot(ShotFor(pics, miss[1]))>>

\* `for sid in missing: ... all_keyframes.append(_placeholder_from_shot(shot))`
Placeholders(pics, miss) ==
  [i \in 1..Len(miss) |-> PlaceholderFromShot(ShotFor(pics, miss[i]))]

\* a defect: the next tier runs every batch again
RetryListAll(nb, failedList) == [i \in 1..nb |-> i]

\* `failed_idx = _run_batches(..., failed_idx, ...)`: the batches of the next tier
RetryList(nb, failedList) == failedList

\* start_workers = max(1, int(parallel_workers or 4)); 2 at the second tier;
\* 1 at the serial tiers
TierWorkers(t, w) ==
  CASE t = 1 -> (IF w = 0 THEN 4 ELSE IF w < 1 THEN 1 ELSE w)
    [] t = 2 -> 2
    [] OTHER -> 1

\* the mode passed to _run_batches at each tier
TierMode(t) ==
  CASE t = 1 -> "parallel_nonstream"
    [] t = 2 -> "parallel_nonstream"
    [] t = 3 -> "serial_stream"
    [] OTHER -> "serial_nonstream"

\* `if mode == "parallel_nonstream" and workers > 1`
RunsParallel(t, w) == TierMode(t) = "parallel_nonstream" /\ TierWorkers(t, w) > 1

\* the last escalation tier
LastTier == 4

\* a defect: a failed batch is handed to a further tier without end
EscalatesAlways(t, failedList) == failedList # << >>

\* `if failed_idx:` before S2, S3 and S4; after S4 comes the coverage check
Escalates(t, failedList) == failedList # << >> /\ t < LastTier

(***************************************************************************)
(* Structured-output pipeline (workers/llm/storyboard.py).                 *)
(*                                                                         *)
(* A text is a sequence of characters.  The characters of the model are    *)
(* the brackets, the comma, the ASCII double quote, the digit 1, the       *)
(* typographic right single quote (written RSQUO) and the Markdown code    *)
(* fence of three backticks (written FENCE, one character of the model).   *)
(* JSON values are numbers (runs of the digit 1), strings, arrays and the   *)
(* objects {} and {k}, k standing for the member "shot_id": <identifier>.  *)
(***************************************************************************)
DQ == "\""

APOS == "'"

LDQUO == "ldquo"

RDQUO == "rdquo"

LSQUO == "lsquo"

RSQUO == "rsquo"

FENCE == "fence"

\* the characters the raw texts of the model are made of
Chars == {"[", "]", ",", DQ, RSQUO, "1", FENCE}

\* the raw texts a generation call returns
RawTexts == SeqsUpTo(Chars, MaxTextLen)

\* the texts the repair generation call returns
RepairTexts == {<< >>, <<"[", "]">>, <<"[", "1", "]">>, <<"1">>}

\* Python values: a number, a string, a list
Num(n) == [k |-> "num", n |-> n, s |-> << >>, items |-> << >>]

Str(t) == [k |-> "str", n |-> 0, s |-> t, items |-> << >>]

Arr(q) == [k |-> "arr", n |-> 0, s |-> << >>, items |-> q]

\* a dict, n telling if it has a truthy "shot_id"
Obj(n) == [k |-> "obj", n |-> n, s |-> << >>, items |-> << >>]

\* the outcome of a json.loads that raises
Raised == [k |-> "raised", n |-> 0, s |-> << >>, items |-> << >>]

\* truth value of a Python value
TruthyVal(v) ==
  CASE v.k = "num" -> v.n # 0
    [] v.k = "str" -> v.s # << >>
    [] v.k = "arr" -> v.items # << >>
    [] v.k = "obj" -> v.n # 0
    [] OTHER       -> FALSE

\* isinstance(v, list)
IsList(v) == v.k = "arr"

\* isinstance(x, dict) and x.get("shot_id")
IsKeyframeDict(v) == v.k = "obj" /\ v.n # 0

\* the positions of character c in text t
PosOf(t, c) == {i \in 1..Len(t) : t[i] = c}

ParseFail == [ok |-> FALSE, val |-> Raised, next |-> 0]

RECURSIVE ParseValue(_, _)
RECURSIVE ParseItems(_, _, _)
\* the JSON decoder: the value that starts at position i of s and the
\* position behind it
ParseValue(s, i) ==
  IF i > Len(s) THEN ParseFail
  ELSE IF s[i] = "1"
    THEN LET stops == {j \in i..Len(s) : s[j] # "1"}
             j     == IF stops = {} THEN Len(s) + 1 ELSE MinOf(stops)
         IN [ok |-> TRUE, val |-> Num(j - i), next |-> j]
  ELSE IF s[i] = DQ
    THEN LET closes == {j \in (i + 1)..Len(s) : s[j] = DQ}
         IN IF closes = {} THEN ParseFail
            ELSE [ok |-> TRUE,
                  val |-> Str(SubSeq(s, i + 1, MinOf(closes) - 1)),
                  next |-> MinOf(closes) + 1]
  ELSE IF s[i] = "["
    THEN IF i < Len(s) /\ s[i + 1] = "]"
           THEN [ok |-> TRUE, val |-> Arr(<< >>), next |-> i + 2]
           ELSE ParseItems(s, i + 1, << >>)
  ELSE IF s[i] = "{"
    THEN IF i < Len(s) /\ s[i + 1] = "}"
           THEN [ok |-> TRUE, val |-> Obj(0), next |-> i + 2]
         ELSE IF i + 1 < Len(s) /\ s[i + 1] = "k" /\ s[i + 2] = "}"
           THEN [ok |-> TRUE, val |-> Obj(1), next |-> i + 3]
         ELSE ParseFail
  ELSE ParseFail

\* the elements of an array from position i on, acc being those read so far
ParseItems(s, i, acc) ==
  LET v == ParseValue(s, i)
  IN IF ~v.ok \/ v.next > Len(s) THEN ParseFail
     ELSE IF s[v.next] = "]"
       THEN [ok |-> TRUE, val |-> Arr(Append(acc, v.val)), next |-> v.next + 1]
     ELSE IF s[v.next] = ","
       THEN ParseItems(s, v.next + 1, Append(acc, v.val))
     ELSE ParseFail

\* json.loads(s): the value, or Raised
JsonLoads(s) ==
  LET r == ParseValue(s, 1)
  IN IF r.ok /\ r.next = Len(s) + 1 THEN r.val ELSE Raised

\* _strip_code_fences: the text between the first fence and the next one,
\* stripped, or the stripped text when there is no such pair
StripCodeFences(s) ==
  IF Cardinality(PosOf(s, FENCE)) >= 2
    THEN LET a == MinOf(PosOf(s, FENCE))
             b == MinOf(PosOf(s, FENCE) \ {a})
         IN Strip(SubSeq(s, a + 1, b - 1))
    ELSE Strip(s)

\* the four str.replace calls of _json_sanitize_minimal
ReplaceQuotes(s) ==
  [i \in 1..Len(s) |->
     CASE s[i] \in {LDQUO, RDQUO} -> DQ
       [] s[i] \in {LSQUO, RSQUO} -> APOS
       [] OTHER                   -> s[i]]

\* position i holds a comma that only whitespace separates from a closing
\* bracket or brace
IsTrailingComma(s, i) ==
  /\ s[i] = ","
  /\ LET later == {j \in (i + 1)..Len(s) : s[j] # " "}
     IN later # {} /\ s[MinOf(later)] \in {"]", "}"}

RECURSIVE DropTrailingCommas(_, _)
\* re.sub(r",(\s*[\]\}])", r"\1", s) from position i on
DropTrailingCommas(s, i) ==
  IF i > Len(s) THEN << >>
  ELSE (IF IsTrailingComma(s, i) THEN << >> ELSE <<s[i]>>)
         \o DropTrailingCommas(s, i + 1)

\* _json_sanitize_minimal
JsonSanitizeMinimal(s) == DropTrailingCommas(ReplaceQuotes(StripCodeFences(s)), 1)

\* li = s.index(left); ri = s.rfind(right); json.loads(s[li:ri+1]) when
\* ri > li.  Raised stands for every way of not getting a value.
ScanPair(s, left, right) ==
  IF PosOf(s, left) # {} /\ PosOf(s, right) # {}
     /\ MaxOf(PosOf(s, right)) > MinOf(PosOf(s, left))
    THEN JsonLoads(SubSeq(s, MinOf(PosOf(s, left)), MaxOf(PosOf(s, right))))
    ELSE Raised

\* _parse_json_list_strict; NoValue is None
ParseJsonListStrict(s) ==
  IF s = << >> THEN NoValue
  ELSE LET s1 == JsonSanitizeMinimal(s)
           d  == JsonLoads(s1)
           o  == ScanPair(s1, "[", "]")
       IN IF d # Raised THEN (IF IsList(d) THEN d ELSE NoValue)
          ELSE IF IsList(o) THEN o ELSE NoValue

\* _extract_top_level_json
ExtractTopLevelJson(s) ==
  IF s = << >> THEN NoValue
  ELSE LET t == Strip(s)
           d == JsonLoads(t)
           a == ScanPair(t, "[", "]")
           b == ScanPair(t, "{", "}")
       IN IF d # Raised THEN d
          ELSE IF a # Raised THEN a
          ELSE IF b # Raised THEN b
          ELSE NoValue

\* `a or b`
PyOr(a, b) == IF TruthyVal(a) THEN a ELSE b

\* _model_repair_to_json_array, the repair call answering with text rt
ModelRepairToJsonArray(rt) == ParseJsonListStrict(rt)

\* a defect: the repair call is made for every local result
NeedsRepairAlways(v) == TRUE

\* _run_one_batch: `if not isinstance(parsed, list)`
NeedsRepair(v) == ~IsList(v)

(***************************************************************************)
(* Inputs of a run and answers of the model                                *)
(***************************************************************************)
\* identifiers the work items of a request carry
InIds == {NoneId, StrId(1), IntId(1)}

\* an identifier no work item carries
ForeignId == StrId(9)

\* the requests: pictures_json
PictureLists == SeqsUpTo([shot_id : InIds], MaxShots)

\* batch_size values passed
BatchSizes == {1, 2}

\* parallel_workers values passed
WorkerCounts == {1, 4}

\* raw frame_idx values: absent, the integer 2, the string "0"
NoFrame == [t |-> "none", v |-> 0]

OutFrames(e) ==
  IF e = "frames"
    THEN {NoFrame, [t |-> "int", v |-> 2], [t |-> "str", v |-> 0]}
    ELSE {NoFrame}

\* identifiers the elements of an answer carry: those of the request, and
\* none (family "ids") or one the request does not know (family "foreign")
OutIds(e, pics) ==
  LET given == {pics[i].shot_id : i \in 1..Len(pics)} \ {NoneId}
  IN CASE e = "ids"     -> given \cup {NoneId}
       [] e = "foreign" -> given \cup {ForeignId}
       [] OTHER         -> given

\* the JSON arrays one model answer can parse to
RawLists(e, pics) ==
  SeqsUpTo([shot_id : OutIds(e, pics), frame : OutFrames(e)], MaxOutLen)

\* the raw texts of the answers of family "log": an array with a key frame,
\* a text without JSON value, a number, the empty array, an array of a number
LogTexts ==
  {<<"[", "{", "k", "}", "]">>, <<"]">>, <<"1">>, <<"[", "]">>, <<"[", "1", "]">>}

\* what the client hands to _run_one_batch: a text of its first candidate
\* with an empty failure log, or no text and an entry of every candidate
\* (the entries kept as their kind)
ClientResults ==
  [text : LogTexts, fails : {<< >>}]
    \cup {[text |-> << >>, fails |-> <<"EXCEPTION", "EXCEPTION", "EXCEPTION">>]}

\* _run_one_batch from the client's result c on (lines 357-379), the repair
\* call answering rt and the member k of the text being "shot_id": id
RunOneBatch(c, rt, id) ==
  LET local    == PyOr(PyOr(ParseJsonListStrict(c.text), ExtractTopLevelJson(c.text)),
                       Arr(<< >>))
      repaired == ModelRepairToJsonArray(rt)
      parsed   == IF ~NeedsRepair(local) THEN local
                  ELSE IF IsList(repaired) THEN repaired
                  ELSE Arr(<< >>)
      dicts    == SelectSeq(parsed.items, IsKeyframeDict)
  IN [parsed |-> [i \in 1..Len(dicts) |->
                    NormalizeKeyframe([shot_id |-> id, frame |-> NoFrame])],
      fs     |-> c.fails \o (IF NeedsRepair(local) /\ ~IsList(repaired)
                                THEN <<"JSON parse failed">> ELSE << >>)]

\* the results (parsed, local_fails) _run_one_batch can return in a run of
\* family e: in family "log" they come from raw texts, in the other
\* families the text is a JSON array and the client logged no failure
BatchOutcomes(e, pics) ==
  IF e = "log"
    THEN {RunOneBatch(c, rt, id) :
            c \in ClientResults, rt \in {<< >>, <<"[", "]">>},
            id \in {StrId(1)}}
    ELSE {[parsed |-> ParsedOf(raw), fs |-> << >>] : raw \in RawLists(e, pics)}

(***************************************************************************)
(* generate_keyframe_prompts_batched                                       *)
(***************************************************************************)
\* [f"batch#{bi+1}: {x}" for x in fs], kept as the batch number
BatchEntries(bi, fs) == [j \in 1..Len(fs) |-> [kind |-> "batch", ids |-> <<bi>>]]

\* [f"retry#{retry_round}: {x}" for x in fs], kept as the round number
RetryEntries(r, fs) == [j \in 1..Len(fs) |-> [kind |-> "retry", ids |-> <<r>>]]

\* the failure strings of the batch path
HardFailed(failedList) == [kind |-> "hard_failed_batches", ids |-> failedList]

FilledPlaceholders(miss) == [kind |-> "filled_placeholders_for_missing_shots", ids |-> miss]

\* lines 501-522: placeholders for what is still missing, the final sort and
\* the return
Conclude(pics, order, all, fl, miss) ==
  /\ bpc' = "finished"
  /\ missing' = miss
  /\ IF miss # << >>
       THEN /\ all_keyframes' = SortAll(order, all \o Placeholders(pics, miss))
            /\ missing_detail' = Range(miss)
            /\ bfailures' = Append(fl, FilledPlaceholders(miss))
       ELSE /\ all_keyframes' = all
            /\ missing_detail' = {}
            /\ bfailures' = fl

\* lines 472-484: after the tiers; the regeneration loop is entered when
\* something is missing and a round is allowed
EnterCoverage(pics, order, mr, all, fl, failedList) ==
  LET fl2  == IF failedList # << >> THEN Append(fl, HardFailed(failedList)) ELSE fl
      miss == MissingIds(pics, all)
  IN IF miss # << >> /\ 0 < mr
       THEN /\ bpc' = "cover"
            /\ all_keyframes' = all
            /\ bfailures' = fl2
            /\ missing' = miss
            /\ missing_detail' = {}
       ELSE Conclude(pics, order, all, fl2, miss)

\* a caller invokes generate_keyframe_prompts_batched; the first tier is
\* started with every batch.  e names the family of answers the model gives
\* in the run: "ids" has elements with and without identifier, "foreign"
\* elements with identifiers the request does not know, "frames" elements
\* with varying frame_idx.
StartFrom(e, lists, sizes) ==
  /\ bpc = "idle"
  /\ UNCHANGED <<clientVars, parseVars, hintVars, sharedVars, extractVars, routeVars, lateVars>>
  /\ \E pics \in lists, bs \in sizes,
        mr \in {0, MaxRetryRounds}, w \in WorkerCounts :
       LET nb == Len(ChunkList(pics, EffBatchSize(bs))) IN
       /\ env' = e
       /\ pictures' = pics
       /\ order_map' = ShotOrderMap(pics)
       /\ batch_size' = bs
       /\ max_rounds' = mr
       /\ workers' = w
       /\ retry_round' = 0
       /\ failed' = << >>
       /\ succeeded' = {}
       /\ executed' = [i \in 1..nb |-> 0]
       /\ IF nb > 0
            THEN /\ bpc' = "tier"
                 /\ tier' = 1
                 /\ pending' = [i \in 1..nb |-> i]
                 /\ UNCHANGED <<all_keyframes, bfailures, missing, missing_detail>>
            ELSE /\ tier' = 1
                 /\ pending' = << >>
                 /\ EnterCoverage(pics, ShotOrderMap(pics), mr, << >>, << >>, << >>)

StartIn(e) == StartFrom(e, PictureLists, BatchSizes)

\* number of batches of the running request
NumBatches == Len(ChunkList(pictures, EffBatchSize(batch_size)))

\* the sequence q without its element b
Without(q, b) == SelectSeq(q, LAMBDA x : x # b)

\* _run_batches: one batch completes (_run_one_batch returns and its result
\* is merged).  In a parallel tier the batches complete in any order, in a
\* serial tier in list order.  With the last batch of the tier come
\* _sort_all, the choice of the next tier and, after the last tier, the
\* coverage check.
RunBatch ==
  /\ bpc = "tier"
  /\ pending # << >>
  /\ UNCHANGED <<clientVars, parseVars, hintVars, sharedVars, extractVars, routeVars, lateVars>>
  /\ UNCHANGED <<env, pictures, order_map, batch_size, max_rounds, workers,
                 retry_round>>
  /\ \E bi \in Range(pending), out \in BatchOutcomes(env, pictures) :
       /\ RunsParallel(tier, workers) \/ bi = Head(pending)
       /\ LET parsed  == out.parsed
              fl2     == bfailures \o BatchEntries(bi, out.fs)
              all2    == all_keyframes \o parsed
              failed2 == IF parsed = << >> THEN Append(failed, bi) ELSE failed
              rest    == Without(pending, bi)
          IN /\ succeeded' = IF parsed = << >> THEN succeeded ELSE succeeded \cup {bi}
             /\ executed' = IF env = "tally" THEN [executed EXCEPT ![bi] = @ + 1]
                            ELSE executed
             /\ IF rest # << >>
                  THEN /\ pending' = rest
                       /\ failed' = failed2
                       /\ all_keyframes' = all2
                       /\ bfailures' = fl2
                       /\ UNCHANGED <<bpc, tier, missing, missing_detail>>
                ELSE IF Escalates(tier, failed2)
                  THEN /\ tier' = tier + 1
                       /\ pending' = RetryList(NumBatches, failed2)
                       /\ failed' = << >>
                       /\ all_keyframes' = SortAll(order_map, all2)
                       /\ bfailures' = fl2
                       /\ UNCHANGED <<bpc, missing, missing_detail>>
                  ELSE /\ pending' = << >>
                       /\ failed' = failed2
                       /\ UNCHANGED tier
                       /\ EnterCoverage(pictures, order_map, max_rounds,
                                        SortAll(order_map, all2), fl2, failed2)

\* one round of the regeneration loop (lines 484-499), and what follows the
\* loop when it ends
RetryRound ==
  /\ bpc = "cover"
  /\ missing # << >> /\ retry_round < max_rounds
  /\ UNCHANGED <<clientVars, parseVars, hintVars, sharedVars, extractVars, routeVars, lateVars>>
  /\ UNCHANGED <<env, pictures, order_map, batch_size, max_rounds, workers,
                 tier, pending, failed, succeeded, executed>>
  /\ retry_round' = retry_round + 1
  /\ \E out \in BatchOutcomes(env, pictures) :
       LET all2 == SortAll(order_map, all_keyframes \o out.parsed)
           fl2  == bfailures \o RetryEntries(retry_round + 1, out.fs)
           miss == MissingIds(pictures, all2)
       IN IF miss # << >> /\ retry_round + 1 < max_rounds
            THEN /\ all_keyframes' = all2
                 /\ missing' = miss
                 /\ bfailures' = fl2
                 /\ UNCHANGED <<bpc, missing_detail>>
            ELSE Conclude(pictures, order_map, all2, fl2, miss)

Start == StartIn("ids")

StartFrames == StartIn("frames")

StartForeign == StartIn("foreign")

StartLog == StartIn("log")

NextBatch ==
  \/ Start
  \/ RunBatch
  \/ RetryRound

\* runs in which the elements of the answers carry identifiers of the
\* request or none
SpecBatch == Init /\ [][NextBatch]_vars

NextFrames ==
  \/ StartFrames
  \/ RunBatch
  \/ RetryRound

\* runs in which the model varies the frame_idx of its answers
SpecFrames == Init /\ [][NextFrames]_vars

NextLog ==
  \/ StartLog
  \/ RunBatch
  \/ RetryRound

\* runs in which the answers are raw texts that go through the parse steps
\* of _run_one_batch and the client reports failures of its own
SpecLog == Init /\ [][NextLog]_vars

NextForeign ==
  \/ StartForeign
  \/ RunBatch
  \/ RetryRound

\* runs in which the model answers with identifiers the request does not know
SpecForeign == Init /\ [][NextForeign]_vars

(***************************************************************************)
(* Properties of the batch path                                            *)
(***************************************************************************)
\* the identifiers expected in the result, as strings
ExpectedIds == {StrOf(sid) : sid \in Range(ShotIdsInput(pictures))}

\* the identifiers the returned entries carry, as strings
ReturnedIds == {StrOf(all_keyframes[i].shot_id) : i \in 1..Len(all_keyframes)}

\* C6: when generate_keyframe_prompts_batched returns, every identifier of
\* the input work items is carried by at least one returned entry, real or
\* placeholder.
C6_EveryExpectedIdReturned ==
  bpc = "finished" => ExpectedIds \subseteq ReturnedIds

\* no regeneration round was allowed, two identifiers were missing, and both
\* are in the result as placeholders
C6_Witness ==
  /\ bpc = "finished"
  /\ max_rounds = 0
  /\ Len(missing) = 2
  /\ missing[1] # missing[2]
  /\ \A i \in 1..Len(all_keyframes) : all_keyframes[i].ph

\* C7: in the result no identifier is carried both by a real entry and by a
\* placeholder.
C7_NoRealPlaceholderPair ==
  bpc = "finished" =>
    \A i, j \in 1..Len(all_keyframes) :
      ~ ( /\ all_keyframes[i].ph
          /\ ~all_keyframes[j].ph
          /\ StrOf(all_keyframes[i].shot_id) = StrOf(all_keyframes[j].shot_id) )

\* C8: the identifiers carried by the returned entries are exactly the
\* expected identifiers.
C8_ReturnedIdsAreExpected ==
  bpc = "finished" => ReturnedIds = ExpectedIds

\* the key the result is claimed to be sorted by: position of the shot in
\* the input order, then frame_idx
ClaimedKey(kf) == <<OrderGet(order_map, StrOf(kf.shot_id)), kf.frame_idx>>

\* C9: the returned entry list is sorted by (position of the entry's shot in
\* the input order, frame_idx).
C9_SortedByShotThenFrame ==
  bpc = "finished" =>
    \A i, j \in 1..Len(all_keyframes) :
      i < j => KeyLeq(ClaimedKey(all_keyframes[i]), ClaimedKey(all_keyframes[j]))

\* the batches that have not produced entries so far
NotSucceeded == (1..NumBatches) \ succeeded

\* C10 (state part): while the tiers run, the batches scheduled at the
\* running tier (still pending, or run and failed at it) are exactly the
\* batches that have not succeeded at any tier, and the tiers have the modes
\* parallel non-stream (parallel_workers), parallel non-stream (2), serial
\* stream, serial non-stream; the tiers are left early only when nothing has
\* failed.
C10_TierState ==
  /\ bpc = "tier" =>
       /\ tier \in 1..LastTier
       /\ pending # << >>
       /\ Range(pending) \cap Range(failed) = {}
       /\ Range(pending) \cup Range(failed) = NotSucceeded
       /\ TierMode(tier) = <<"parallel_nonstream", "parallel_nonstream",
                             "serial_stream", "serial_nonstream">>[tier]
       /\ TierWorkers(tier, workers) = <<workers, 2, 1, 1>>[tier]
  /\ (bpc \in {"cover", "finished"} /\ tier < LastTier) => failed = << >>
  /\ bpc \in {"cover", "finished"} => Range(failed) = NotSucceeded

\* C10 (step part): a step keeps the tier or moves to the next one, the
\* batch it runs had not succeeded before, and no batch leaves the set of
\* succeeded batches.
C10_TierStep ==
  /\ tier' = tier \/ tier' = tier + 1
  /\ succeeded \subseteq succeeded'
  /\ (bpc = "tier" /\ tier' = tier /\ bpc' = "tier") =>
        /\ Range(pending') \subseteq Range(pending)
        /\ (Range(pending) \ Range(pending')) \cap succeeded = {}
  /\ (bpc = "tier" /\ tier' = tier + 1) =>
        /\ bpc' = "tier"
        /\ Range(pending') = (1..NumBatches) \ succeeded'

\* C10: batch escalation runs the four tiers in their fixed order, each tier
\* runs exactly the batches that failed at the tier before, a batch that
\* succeeded is never run again, and a tier is skipped when nothing failed
\* before it.
C10_TierEscalation == [](C10_TierState) /\ [][C10_TierStep]_vars

\* the last tier runs the one batch that failed the three tiers before,
\* while the other batch succeeded earlier
C10_Witness ==
  /\ bpc = "tier"
  /\ tier = LastTier
  /\ succeeded = {1}
  /\ pending = <<2>>

\* batch bi completes in this step without a parsed entry: _run_batches
\* puts it on the list `failed`
FailsInStep(bi) ==
  /\ bpc = "tier"
  /\ \/ /\ pending' = Without(pending, bi) /\ pending' # << >>
        /\ failed' = Append(failed, bi)
     \/ /\ pending = <<bi>> /\ tier' = tier + 1 /\ bi \in Range(pending')
     \/ /\ pending = <<bi>> /\ bpc' # "tier" /\ failed' = Append(failed, bi)

\* the entries the step adds to the failure log
AddedEntries == SubSeq(bfailures', Len(bfailures) + 1, Len(bfailures'))

C23_Step ==
  \A bi \in Range(pending) :
    FailsInStep(bi) =>
      \E j \in 1..Len(AddedEntries) :
        AddedEntries[j].kind = "batch" /\ AddedEntries[j].ids = <<bi>>

\* C23: whenever a batch fails at a tier, the failure log gains an entry
\* "batch#k: ..." of that batch.
C23_FailedBatchIsLogged == [][C23_Step]_vars

\* the expected identifiers no entry of all_keyframes carries
NotCovered == ExpectedIds \ ReturnedIds

\* a step that runs a regeneration round
C24_Step ==
  retry_round' = retry_round + 1 =>
    /\ bpc = "cover"
    /\ NotCovered # {}
    /\ retry_round < max_rounds

\* C24: a regeneration round is run only while an expected identifier is
\* carried by no entry, and at most max_missing_retry_rounds rounds are run;
\* retry_rounds counts the rounds and stays 0 when the tiers covered every
\* identifier.
C24_RoundsOnlyWhileMissing == [][C24_Step]_vars

\* the number in the reason text "not returned by model after 3 retry rounds"
ReasonRounds == 3

\* meta["missing_reasons"]: the number of rounds the reason of each
\* identifier of missing_detail names
MissingReasons == [sid \in missing_detail |-> ReasonRounds]

\* C25: the reason recorded for an identifier that is still missing names
\* the configured number of regeneration rounds.
C25_ReasonNamesConfiguredRounds ==
  bpc = "finished" =>
    \A sid \in DOMAIN MissingReasons : MissingReasons[sid] = max_rounds

\* no tier and no round returned an entry for the identifier sid
NeverReturned(sid) ==
  \A j \in 1..Len(all_keyframes) :
    all_keyframes[j].ph \/ StrOf(all_keyframes[j].shot_id) # StrOf(sid)

\* C26: when the call returns, every work item whose identifier no tier and
\* no round returned has a placeholder entry in the result that carries the
\* promptv and seed of a work item with that identifier, its identifier is
\* in missing_after_retries, and the failure log has an entry naming it.
C26_MissingGetsPlaceholder ==
  bpc = "finished" =>
    \A k \in 1..Len(pictures) :
      LET sid == pictures[k].shot_id IN
      (Truthy(sid) /\ NeverReturned(sid)) =>
         /\ \E j \in 1..Len(all_keyframes) :
              /\ all_keyframes[j].ph
              /\ all_keyframes[j].shot_id = StrOf(sid)
              /\ all_keyframes[j].promptv \in 1..Len(pictures)
              /\ pictures[all_keyframes[j].promptv].shot_id = sid
         /\ sid \in Range(missing)
         /\ \E j \in 1..Len(bfailures) :
              /\ bfailures[j].kind = "filled_placeholders_for_missing_shots"
              /\ sid \in Range(bfailures[j].ids)

\* the first of two work items was answered, the second was not and has a
\* placeholder with its own carry-over fields
C26_Witness ==
  /\ bpc = "finished"
  /\ Len(pictures) = 2
  /\ Len(missing) = 1
  /\ missing[1] = pictures[2].shot_id
  /\ \E j \in 1..Len(all_keyframes) :
       all_keyframes[j].ph /\ all_keyframes[j].promptv = 2
  /\ \E j \in 1..Len(all_keyframes) : ~all_keyframes[j].ph

\* longer requests, for the cutting into batches alone
LongPictureLists == SeqsUpTo([shot_id : InIds], MaxItems)

WideBatchSizes == 1..MaxBatchSize

\* the entry of generate_keyframe_prompts_batched up to the first tier, on
\* the longer requests
StartLong == StartFrom("ids", LongPictureLists, WideBatchSizes)

NextChunk == StartLong

SpecChunk == Init /\ [][NextChunk]_vars

\* batches = _chunk_list(pictures_json, max(1, int(batch_size)))
Batches == ChunkList(pictures, EffBatchSize(batch_size))

\* meta["batches"]
MetaBatches == Len(Batches)

\* the least k with k * b >= n
CeilDiv(n, b) == CHOOSE k \in 0..n : k * b >= n /\ (k = 0 \/ (k - 1) * b < n)

\* C30: the N work items are cut into ceil(N/B) batches, consecutive slices
\* of the input in input order that do not overlap, every one but the last
\* of B items and the last of at most B, whose concatenation is the input;
\* meta['batches'] is that number.
C30_BatchesPartitionInput ==
  bpc # "idle" =>
    LET N == Len(pictures)
        B == batch_size
    IN  /\ B >= 1
        /\ Len(Batches) = CeilDiv(N, B)
        /\ MetaBatches = CeilDiv(N, B)
        /\ \A k \in 1..Len(Batches) :
             /\ Len(Batches[k]) >= 1
             /\ Len(Batches[k]) <= B
             /\ k < Len(Batches) => Len(Batches[k]) = B
             /\ \A j \in 1..Len(Batches[k]) :
                  Batches[k][j] = pictures[(k - 1) * B + j]
        /\ JoinAll(Batches) = pictures

\* three work items cut by twos: a full batch and a last batch of one
C30_Witness ==
  /\ bpc = "tier"
  /\ Len(pictures) = 3
  /\ pictures[1] # pictures[3]
  /\ batch_size = 2
  /\ MetaBatches = 2
  /\ Batches = <<SubSeq(pictures, 1, 2), SubSeq(pictures, 3, 3)>>
  /\ pending = <<1, 2>>

\* the batches a tier with `workers` workers over n batches runs at a time
Concurrent(t, w, n) ==
  IF RunsParallel(t, w) THEN MinOf({TierWorkers(t, w), n}) ELSE 1

\* C34: along the tiers the parallelism does not grow: tier 2 runs no more
\* batches at a time than tier 1 did, and tiers 3 and 4 run one at a time.
C34_ParallelismNeverGrows ==
  bpc = "tier" =>
    /\ tier = 2 =>
         Concurrent(2, workers, Len(pending)) <= Concurrent(1, workers, NumBatches)
    /\ tier >= 3 => Concurrent(tier, workers, Len(pending)) = 1

(***************************************************************************)
(* The structured-output pipeline run on the raw text of an answer        *)
(***************************************************************************)
\* _run_one_batch from the raw text on (lines 370-379)
RunOneBatchText ==
  /\ ppc = "idle"
  /\ UNCHANGED <<clientVars, batchVars, hintVars, sharedVars, extractVars, routeVars, lateVars>>
  /\ \E raw \in RawTexts, rt \in RepairTexts :
       LET local    == PyOr(PyOr(ParseJsonListStrict(raw), ExtractTopLevelJson(raw)),
                            Arr(<< >>))
           repaired == ModelRepairToJsonArray(rt)
           parsed   == IF ~NeedsRepair(local) THEN local
                       ELSE IF IsList(repaired) THEN repaired
                       ELSE Arr(<< >>)
       IN /\ ppc' = "done"
          /\ pfn' = "batch"
          /\ raw_text' = raw
          /\ repair_text' = IF NeedsRepair(local) THEN rt ELSE << >>
          /\ repair_calls' = IF NeedsRepair(local) THEN repair_calls + 1 ELSE repair_calls
          /\ parse_log' = IF NeedsRepair(local) /\ ~IsList(repaired)
                            THEN Append(parse_log, "JSON parse failed")
                            ELSE parse_log
          /\ parsed_val' = parsed
          /\ batch_out' = SelectSeq(parsed.items, IsKeyframeDict)

\* generate_pictures from the returned text on (lines 258-262)
GeneratePicturesText ==
  /\ ppc = "idle"
  /\ UNCHANGED <<clientVars, batchVars, hintVars, sharedVars, extractVars, routeVars, lateVars>>
  /\ UNCHANGED <<parse_log, batch_out>>
  /\ \E raw \in RawTexts, rt \in RepairTexts :
       LET obj == PyOr(ParseJsonListStrict(raw), ExtractTopLevelJson(raw))
       IN /\ ppc' = "done"
          /\ pfn' = "pictures"
          /\ raw_text' = raw
          /\ repair_text' = IF obj = NoValue THEN rt ELSE << >>
          /\ repair_calls' = IF obj = NoValue THEN repair_calls + 1 ELSE repair_calls
          /\ parsed_val' = IF obj = NoValue THEN ModelRepairToJsonArray(rt) ELSE obj

NextParse ==
  \/ RunOneBatchText
  \/ GeneratePicturesText

SpecParse == Init /\ [][NextParse]_vars

(***************************************************************************)
(* Properties of the structured-output pipeline                            *)
(***************************************************************************)
\* C11: a raw text that is a valid JSON array goes through the pipeline of
\* _run_one_batch and of generate_pictures without a repair call, and the
\* pipeline yields the array the text denotes.
C11_ValidArrayUnchanged ==
  (ppc = "done" /\ IsList(JsonLoads(raw_text))) =>
     /\ repair_calls = 0
     /\ parsed_val = JsonLoads(raw_text)

\* C12: in _run_one_batch, a raw text from which the local steps get no JSON
\* value leads to exactly one repair call.
C12_UnparsableIsRepaired ==
  ( /\ ppc = "done" /\ pfn = "batch"
    /\ ParseJsonListStrict(raw_text) = NoValue
    /\ ExtractTopLevelJson(raw_text) = NoValue ) =>
       repair_calls = 1

(***************************************************************************)
(* The transient-error classifier (providers/llm/gemini.py).  Messages and *)
(* hints are strings; SubSeq(s, i, i) is the i-th character of s.          *)
(***************************************************************************)
\* TRANSIENT_HINTS
TRANSIENT_HINTS ==
  <<"code: 429", "status: RESOURCE_EXHAUSTED", "rate limit",
    "code: 500", "code: 502", "code: 503", "code: 504",
    "status: INTERNAL", "status: UNAVAILABLE", "status: DEADLINE_EXCEEDED",
    "temporarily unavailable", "connection reset", "timeout",
    "rst_stream", "goaway">>

UpperLetters == "ABCDEFGHIJKLMNOPQRSTUVWXYZ"

LowerLetters == "abcdefghijklmnopqrstuvwxyz"

\* the character c with its case changed from the alphabet `from` to `to`
MapChar(c, from, to) ==
  IF \E i \in 1..Len(from) : SubSeq(from, i, i) = c
    THEN LET i == CHOOSE i \in 1..Len(from) : SubSeq(from, i, i) = c
         IN SubSeq(to, i, i)
    ELSE c

RECURSIVE MapCase(_, _, _)
MapCase(str, from, to) ==
  IF Len(str) = 0 THEN ""
  ELSE MapChar(SubSeq(str, 1, 1), from, to) \o MapCase(SubSeq(str, 2, Len(str)), from, to)

\* str.lower()
Lower(str) == MapCase(str, UpperLetters, LowerLetters)

\* str.upper()
Upper(str) == MapCase(str, LowerLetters, UpperLetters)

\* `h in str`
Contains(h, str) ==
  \E i \in 1..(Len(str) - Len(h) + 1) : SubSeq(str, i, i + Len(h) - 1) = h

\* `h in low`
HintMatches(h, low) == Contains(h, low)

\* _is_transient_error(exc), msg being str(exc)
IsTransientError(msg) ==
  LET low == Lower(msg)
  IN \E k \in 1..Len(TRANSIENT_HINTS) : HintMatches(TRANSIENT_HINTS[k], low)

\* the transient keywords the specification lists
ListedKeywords ==
  {"429", "RESOURCE_EXHAUSTED", "rate limit", "500", "502", "503", "504",
   "UNAVAILABLE", "DEADLINE_EXCEEDED", "timeout", "connection reset",
   "rst_stream", "goaway"}

\* words without a transient keyword
OtherWords == {"invalid argument", "code: 400", "status: NOT_FOUND", "boom"}

\* the words an error message is built around: keywords and hints as
\* written, in lower case and in upper case, and other words
MessageWords ==
  LET base == ListedKeywords \cup {TRANSIENT_HINTS[k] : k \in 1..Len(TRANSIENT_HINTS)}
  IN base \cup {Lower(w) : w \in base} \cup {Upper(w) : w \in base} \cup OtherWords

\* str(exc) of the errors classified
Messages ==
  {pre \o w \o post : pre \in {"", "Error "}, w \in MessageWords,
                      post \in {"", ". retry later"}}

\* one call of _is_transient_error
Classify ==
  /\ hpc = "idle"
  /\ UNCHANGED <<clientVars, batchVars, parseVars, sharedVars, extractVars, routeVars, lateVars>>
  /\ \E m \in Messages :
       /\ message' = m
       /\ transient' = IsTransientError(m)
       /\ hpc' = "done"

NextHints == Classify

SpecHints == Init /\ [][NextHints]_vars

\* C16: _is_transient_error returns true exactly for the messages that
\* contain, in any letter case, one of the listed transient keywords.
C16_KeywordsAreTransient ==
  hpc = "done" =>
    (transient <=> \E kw \in ListedKeywords : Contains(Lower(kw), Lower(message)))

(***************************************************************************)
(* The storyboard client shared by the requests (workers/llm/storyboard.py) *)
(* The endpoints are plain functions, which the server runs on a pool of   *)
(* threads; each step below is one statement of one request.               *)
(***************************************************************************)
\* `for i in range(3)` of _try_stream_pro_3x and _try_nonstream_pro_3x
ProAttempts == 3

\* ["models/gemini-2.5-pro"]
FlagshipOnly == <<Candidates[1]>>

\* _try_..._pro_3x: `orig = list(_client.model_candidates)`
SaveOrig(r) ==
  /\ rpc[r] = "idle"
  /\ rkind' = [rkind EXCEPT ![r] = "pro_3x"]
  /\ orig' = [orig EXCEPT ![r] = model_candidates]
  /\ rpc' = [rpc EXCEPT ![r] = "saved"]
  /\ UNCHANGED <<model_candidates, att, seen>>

\* _try_..._pro_3x: `_client.model_candidates = ["models/gemini-2.5-pro"]`
Narrow(r) ==
  /\ rpc[r] = "saved"
  /\ model_candidates' = FlagshipOnly
  /\ rpc' = [rpc EXCEPT ![r] = "narrowed"]
  /\ UNCHANGED <<rkind, orig, att, seen>>

\* _try_..._pro_3x: one pass of the loop; the client call iterates over the
\* list that is current when it starts, and the pass returns or fails
ProCall(r) ==
  /\ rpc[r] = "narrowed"
  /\ seen' = [seen EXCEPT ![r] = @ \cup {model_candidates}]
  /\ \E ok \in BOOLEAN :
       IF ok \/ att[r] + 1 = ProAttempts
         THEN /\ rpc' = [rpc EXCEPT ![r] = "returning"]
              /\ UNCHANGED att
         ELSE /\ att' = [att EXCEPT ![r] = @ + 1]
              /\ UNCHANGED rpc
  /\ UNCHANGED <<model_candidates, rkind, orig>>

\* _try_..._pro_3x: `finally: _client.model_candidates = orig`
Restore(r) ==
  /\ rpc[r] = "returning"
  /\ model_candidates' = orig[r]
  /\ rpc' = [rpc EXCEPT ![r] = "done"]
  /\ UNCHANGED <<rkind, orig, att, seen>>

\* a request calls generate_with_fallback on the shared client (from
\* _run_one_batch, generate_pictures or the repair call): its candidate loop
\* runs over the list that is current when the loop starts
FallbackCall(r) ==
  /\ rpc[r] = "idle"
  /\ rkind' = [rkind EXCEPT ![r] = "fallback"]
  /\ seen' = [seen EXCEPT ![r] = @ \cup {model_candidates}]
  /\ rpc' = [rpc EXCEPT ![r] = "done"]
  /\ UNCHANGED <<model_candidates, orig, att>>

NextShared ==
  /\ UNCHANGED <<clientVars, batchVars, parseVars, hintVars, extractVars, routeVars, lateVars>>
  /\ \E r \in Requests :
       \/ SaveOrig(r)
       \/ Narrow(r)
       \/ ProCall(r)
       \/ Restore(r)
       \/ FallbackCall(r)

SpecShared == Init /\ [][NextShared]_vars

\* C27: no fallback call of a request runs over a candidate list that
\* another request narrowed to the flagship model, and when no request is
\* under way the shared list is the full priority list.
C27_NoInterference ==
  /\ \A r \in Requests : rkind[r] = "fallback" => seen[r] \subseteq {Candidates}
  /\ (\A r \in Requests : rpc[r] \in {"idle", "done"}) => model_candidates = Candidates

(***************************************************************************)
(* The completion extractor (providers/llm/gemini.py)                      *)
(*                                                                         *)
(* A finish signal is absent, a member of the FinishReason enumeration     *)
(* (given by its name) or an arbitrary value (given by the parts str(fr)   *)
(* has between its dots).                                                  *)
(***************************************************************************)
NoSignal == [t |-> "none", parts |-> << >>]

EnumSignal(name) == [t |-> "enum", parts |-> <<name>>]

StrSignal(parts) == [t |-> "str", parts |-> parts]

\* the finish signals a first candidate carries
Signals ==
  {NoSignal}
    \cup {EnumSignal(n) : n \in {"STOP", "MAX_TOKENS", "SAFETY", "FINISH_REASON_UNSPECIFIED"}}
    \cup {StrSignal(q) : q \in {<<"STOP">>, <<"FinishReason", "MAX_TOKENS">>,
                                <<"FinishReason", "SAFETY">>, <<"banana">>}}

\* _finish_name
FinishName(fr) ==
  CASE fr.t = "none" -> "UNKNOWN"
    [] fr.t = "enum" -> (IF fr.parts[1] = "" THEN "UNKNOWN" ELSE fr.parts[1])
    [] OTHER         -> fr.parts[Len(fr.parts)]

\* the texts of the parts of a first candidate: << >> is a part without text
PartLists == SeqsUpTo(Texts, MaxEvents)

\* the responses: resp.text (empty when absent) and resp.candidates (empty
\* when absent), a candidate being its finish signal and its parts
Responses ==
  [text : Texts, cands : {<< >>}]
    \cup {[text |-> t, cands |-> <<[finish_reason |-> f, parts |-> ps]>>] :
            t \in Texts, f \in Signals, ps \in PartLists}

\* "".join(buf) over the parts with text
JoinParts(ps) == JoinAll(SelectSeq(ps, LAMBDA t : t # << >>))

\* _extract_text_and_reason: the text
ExtractText(r) ==
  IF r.cands # << >> /\ IsBlank(r.text) /\ JoinParts(r.cands[1].parts) # << >>
    THEN JoinParts(r.cands[1].parts)
    ELSE r.text

\* _extract_text_and_reason: the reason
ExtractReason(r) ==
  IF r.cands # << >> THEN FinishName(r.cands[1].finish_reason) ELSE "UNKNOWN"

\* one call of _extract_text_and_reason
Extract ==
  /\ epc = "idle"
  /\ UNCHANGED <<clientVars, batchVars, parseVars, hintVars, sharedVars, routeVars, lateVars>>
  /\ \E r \in Responses :
       /\ resp' = r
       /\ ex_txt' = ExtractText(r)
       /\ ex_reason' = ExtractReason(r)
       /\ epc' = "done"

NextExtract == Extract

SpecExtract == Init /\ [][NextExtract]_vars

\* C28: the terminal reason the extractor returns is STOP, MAX_TOKENS or
\* UNKNOWN, an absent or unrecognized finish signal giving UNKNOWN.
C28_ReasonIsNormalized ==
  epc = "done" =>
    /\ ex_reason \in {"STOP", "MAX_TOKENS", "UNKNOWN"}
    /\ (resp.cands = << >> \/ resp.cands[1].finish_reason = NoSignal) =>
          ex_reason = "UNKNOWN"

(***************************************************************************)
(* Route presets (providers/llm/gemini.py)                                 *)
(***************************************************************************)
\* ROUTES
ROUTES ==
  [n \in {"short", "stream", "json", "longform"} |->
     <<"models/gemini-2.5-pro", "models/gemini-2.5-flash", "models/gemini-1.5-pro-latest">>]

\* a defect: the prefix is added to every name
NormalizeModelNameAlways(name) == "models/" \o name

\* _normalize_model_name
NormalizeModelName(name) ==
  IF Len(name) >= Len("models/") /\ SubSeq(name, 1, Len("models/")) = "models/"
    THEN name
    ELSE "models/" \o name

\* the names passed to use_route
RouteNames == DOMAIN ROUTES \cup {"", "Longform", "fast"}

\* model names a client is constructed with
GivenModels == {"gemini-2.5-flash", "models/gemini-2.5-pro", "models/custom"}

\* GeminiClient.__init__: self.model_candidates for the list given
ConstructedList(given) ==
  IF given = << >> THEN [i \in 1..Len(ROUTES["longform"]) |->
                           NormalizeModelName(ROUTES["longform"][i])]
  ELSE [i \in 1..Len(given) |-> NormalizeModelName(given[i])]

\* a client constructed with any list of at most NumCand models
InitRouteAny ==
  /\ cand_list \in {ConstructedList(g) : g \in SeqsUpTo(GivenModels, NumCand)}
  /\ route_name = ""
  /\ route_raised = FALSE

\* use_route(route_name)
UseRoute ==
  /\ UNCHANGED <<clientVars, batchVars, parseVars, hintVars, sharedVars, extractVars, lateVars>>
  /\ \E name \in RouteNames :
       /\ route_name' = name
       /\ IF name \notin DOMAIN ROUTES
            THEN /\ route_raised' = TRUE
                 /\ UNCHANGED cand_list
            ELSE /\ route_raised' = FALSE
                 /\ cand_list' = [i \in 1..Len(ROUTES[name]) |->
                                    NormalizeModelName(ROUTES[name][i])]

NextRoute == UseRoute

InitAnyClient == InitRest /\ InitRouteAny

SpecRoute == InitAnyClient /\ [][NextRoute]_vars

\* the order flagship, fast, legacy
FlagshipFastLegacy ==
  <<"models/gemini-2.5-pro", "models/gemini-2.5-flash", "models/gemini-1.5-pro-latest">>

C29_Step ==
  /\ route_name' \in {"short", "stream", "json", "longform"} =>
        /\ ~route_raised'
        /\ cand_list' = FlagshipFastLegacy
  /\ route_name' \notin {"short", "stream", "json", "longform"} =>
        /\ route_raised'
        /\ cand_list' = cand_list

\* C29: use_route with the name of a preset replaces the candidate list by
\* the preset's list, which is flagship, fast, legacy for every preset; with
\* any other name it raises and leaves the candidate list as it was.
C29_UseRoute == [][C29_Step]_vars

\* use_route("stream") has installed the preset
C29_Witness ==
  /\ route_name = "stream"
  /\ ~route_raised
  /\ cand_list = FlagshipFastLegacy

(***************************************************************************)
(* Round 1 with the streaming policy (workers/llm/storyboard.py)           *)
(*                                                                         *)
(* The two client calls are taken by what they return.  A stream call      *)
(* meets, per candidate, a stream with chunks, a failed stream whose       *)
(* warm-up call gives text, or both failing; a call can also raise before  *)
(* its candidate loop (the construction of the generation config is        *)
(* outside every try).                                                     *)
(***************************************************************************)
\* chunks a stream yields: non-empty texts
ChunkTexts == Texts \ {<< >>}

\* texts with something besides whitespace
SolidTexts == {t \in SeqsUpTo({" ", "x"}, MaxEvents) : ~IsBlank(t)}

\* what one candidate does to a stream call
StreamCandOutcomes ==
  {[k |-> "stream", chunks |-> c] : c \in SeqsUpTo(ChunkTexts, MaxEvents) \ {<< >>}}
    \cup {[k |-> "warm", chunks |-> <<t>>] : t \in SolidTexts}
    \cup {[k |-> "fail", chunks |-> << >>]}

RECURSIVE StreamFrom(_, _, _, _)
\* stream_with_fallback: the candidate loop from candidate i on
StreamFrom(cands, outs, i, fails) ==
  IF i > Len(cands) THEN [gen |-> << >>, used |-> "", fails |-> fails]
  ELSE IF outs[i].k = "stream"
    THEN [gen |-> outs[i].chunks, used |-> cands[i], fails |-> fails]
  ELSE IF outs[i].k = "warm"
    THEN [gen |-> outs[i].chunks, used |-> cands[i],
          fails |-> Append(fails, "STREAM_FAIL")]
  ELSE StreamFrom(cands, outs, i + 1, fails \o <<"STREAM_FAIL", "NON_STREAM_FAIL">>)

\* stream_with_fallback(prompt) on the candidate list cands
StreamWithFallback(cands, outs) == StreamFrom(cands, outs, 1, << >>)

\* what generate_with_fallback returns on the candidate list cands: the text
\* of one candidate, or no text and no model
GenerateResults(cands) ==
  {[txt |-> << >>, used |-> "", fails |-> <<"EXCEPTION">>]}
    \cup {[txt |-> t, used |-> cands[i], fails |-> [j \in 1..(i - 1) |-> "EXCEPTION"]] :
            t \in SolidTexts, i \in 1..Len(cands)}

\* generate_pictures_streaming_policy is entered
PolicyStart ==
  /\ plpc = "idle"
  /\ plpc' = "stream"
  /\ p_stages' = <<"stream">>
  /\ UNCHANGED <<p_att, p_s1, p_txt, p_gen, p_used, p_fails>>
  /\ UNCHANGED notPolicy

\* the policy leaves a stage for the next one
EnterStage(st) ==
  /\ plpc' = st
  /\ p_att' = 0
  /\ p_stages' = Append(p_stages, st)

\* the policy returns
PolicyReturn(gen, used) ==
  /\ plpc' = "done"
  /\ p_gen' = gen
  /\ p_used' = used
  /\ UNCHANGED <<p_att, p_stages>>

\* _try_stream_pro_3x: one attempt, and what the policy does with the result
\* when the attempt was the last
TryStreamPro ==
  /\ plpc = "stream"
  /\ UNCHANGED notPolicy
  /\ UNCHANGED p_txt
  /\ \/ \E o \in StreamCandOutcomes :
          LET r == StreamWithFallback(FlagshipOnly, <<o>>) IN
          /\ p_fails' = p_fails \o r.fails
          /\ p_s1' = [returned |-> TRUE, gen |-> r.gen]
          /\ PolicyReturn(r.gen, FlagshipOnly[1])
     \/ /\ p_fails' = Append(p_fails, "round1_pro_stream_attempt")
        /\ IF p_att + 1 < ProAttempts
             THEN /\ p_att' = p_att + 1
                  /\ UNCHANGED <<plpc, p_stages, p_s1, p_gen, p_used>>
             ELSE /\ EnterStage("nonstream")
                  /\ UNCHANGED <<p_s1, p_gen, p_used>>

\* _try_nonstream_pro_3x: one attempt, and what the policy does with the
\* result when the attempt returned text or was the last
TryNonstreamPro ==
  /\ plpc = "nonstream"
  /\ UNCHANGED notPolicy
  /\ UNCHANGED p_s1
  /\ \/ \E r \in GenerateResults(FlagshipOnly) :
          /\ p_fails' = p_fails \o r.fails
          /\ IF ~IsBlank(r.txt)
               THEN /\ p_txt' = r.txt
                    /\ PolicyReturn(<<r.txt>>, FlagshipOnly[1])
               ELSE /\ UNCHANGED p_txt
                    /\ IF p_att + 1 < ProAttempts
                         THEN /\ p_att' = p_att + 1
                              /\ UNCHANGED <<plpc, p_stages, p_gen, p_used>>
                         ELSE /\ EnterStage("fallback")
                              /\ UNCHANGED <<p_gen, p_used>>
     \/ /\ p_fails' = Append(p_fails, "round1_pro_nonstream_attempt")
        /\ UNCHANGED p_txt
        /\ IF p_att + 1 < ProAttempts
             THEN /\ p_att' = p_att + 1
                  /\ UNCHANGED <<plpc, p_stages, p_gen, p_used>>
             ELSE /\ EnterStage("fallback")
                  /\ UNCHANGED <<p_gen, p_used>>

\* the last stage: generate_with_fallback over the full candidate list
PolicyFallback ==
  /\ plpc = "fallback"
  /\ UNCHANGED notPolicy
  /\ UNCHANGED p_s1
  /\ \E r \in GenerateResults(Candidates) :
       /\ p_fails' = p_fails \o r.fails
       /\ p_txt' = r.txt
       /\ PolicyReturn(<<r.txt>>, r.used)

NextPolicy == PolicyStart \/ TryStreamPro \/ TryNonstreamPro \/ PolicyFallback

SpecPolicy == Init /\ [][NextPolicy]_vars

\* the flagship streaming stage has produced no chunk at all
NoChunkFromStream == p_s1.gen = << >>

\* C31: the policy goes from flagship streaming (at most 3 attempts) to
\* flagship non-streaming (at most 3 attempts) to the non-streaming fallback
\* over all candidates; when the flagship streaming stage has produced no
\* chunk, the later stages run and the text they obtain, when it is not
\* empty, is what the returned iterator yields.
C31_EscalatesWhenNoChunk ==
  /\ p_att < ProAttempts
  /\ p_stages \in {<< >>, <<"stream">>, <<"stream", "nonstream">>,
                   <<"stream", "nonstream", "fallback">>}
  /\ (plpc = "done" /\ NoChunkFromStream) =>
        /\ Len(p_stages) >= 2
        /\ p_txt # << >> => p_gen = <<p_txt>>

(***************************************************************************)
(* The round-1 streaming endpoint (api/v1/routes_storyboardn.py)           *)
(*                                                                         *)
(* event_stream is a generator: it runs from one yield to the next when    *)
(* the server asks for the next event.  The iterator it reads is the one   *)
(* the policy returned; the iterator of a stream ends or raises with the   *)
(* underlying stream.                                                      *)
(***************************************************************************)
\* the chunks an iterator produces; single_iter2 can produce an empty one
SseChunks == {<< >>, <<"[">>, <<"1", "]">>, <<"1">>}

\* "event: chunk"
ChunkEvent(c) == [ev |-> "chunk", data |-> c, err |-> FALSE]

\* "event: done", with the error object or with the tail
DoneEvent(e) == [ev |-> "done", data |-> << >>, err |-> e]

\* lines 138-141: the work items read from raw, rt being the answer of the
\* repair call when one is made
PicsOf(raw, rt) ==
  LET p0 == PyOr(PyOr(ParseJsonListStrict(raw), ExtractTopLevelJson(raw)), Arr(<< >>))
      r  == PyOr(ModelRepairToJsonArray(rt), Arr(<< >>))
  IN  IF IsList(p0) THEN p0 ELSE IF IsList(r) THEN r ELSE Arr(<< >>)

\* the first event is asked for: the policy is called and returns its iterator
SseOpen ==
  /\ sspc = "idle"
  /\ UNCHANGED notSse
  /\ \E g \in SeqsUpTo(SseChunks, MaxEvents), e \in {"end", "raise"} :
       \* an iterator that can raise is a stream's, whose first chunk was
       \* obtained before the policy returned
       /\ e = "raise" => (g # << >> /\ Head(g) # << >>)
       /\ s_gen' = g
       /\ s_end' = e
  /\ sspc' = "loop"
  /\ UNCHANGED <<s_made, s_raw, s_events>>

\* `for chunk in gen`: the iterator produces a chunk; an empty one is skipped,
\* any other is added to raw and sent
SseChunk ==
  /\ sspc = "loop"
  /\ s_gen # << >>
  /\ UNCHANGED notSse
  /\ s_gen' = Tail(s_gen)
  /\ s_made' = Append(s_made, Head(s_gen))
  /\ IF Head(s_gen) = << >>
       THEN UNCHANGED <<s_raw, s_events>>
       ELSE /\ s_raw' = s_raw \o Head(s_gen)
            /\ s_events' = Append(s_events, ChunkEvent(Head(s_gen)))
  /\ UNCHANGED <<sspc, s_end>>

\* the iterator is exhausted: raw is parsed and the done event is sent
SseDone ==
  /\ sspc = "loop"
  /\ s_gen = << >> /\ s_end = "end"
  /\ UNCHANGED notSse
  /\ \E rt \in RepairTexts :
       s_events' = Append(s_events, DoneEvent(PicsOf(s_raw, rt).items = << >>))
  /\ sspc' = "closed"
  /\ UNCHANGED <<s_gen, s_end, s_made, s_raw>>

\* the iterator raises: the exception leaves event_stream, which has no
\* handler, and the response ends
SseRaise ==
  /\ sspc = "loop"
  /\ s_gen = << >> /\ s_end = "raise"
  /\ UNCHANGED notSse
  /\ sspc' = "closed"
  /\ UNCHANGED <<s_gen, s_end, s_made, s_raw, s_events>>

NextSse == SseOpen \/ SseChunk \/ SseDone \/ SseRaise

SpecSse == Init /\ [][NextSse]_vars

\* C32: the events of a response are one chunk event for each non-empty
\* chunk produced, in the order of production, and then exactly one done
\* event, which is the last event, however the chunk sequence behaves.
C32_ChunksThenOneDone ==
  LET made == NonEmptyChunks(s_made)
  IN  /\ \A i \in 1..Len(s_events) :
           s_events[i].ev = "done" => (i = Len(s_events) /\ sspc = "closed")
      /\ sspc = "closed" =>
           /\ Len(s_events) = Len(made) + 1
           /\ \A i \in 1..Len(made) : s_events[i] = ChunkEvent(made[i])
           /\ s_events[Len(s_events)].ev = "done"

(***************************************************************************)
(* The application and its CORS middleware (services/api/app/main.py)      *)
(*                                                                         *)
(* The list of allowed origins is cut out of settings.CORS_ORIGINS when    *)
(* the application is built.  The middleware answers a request with an     *)
(* Origin header by the origin itself when the origin is an element of the *)
(* list, as the tests of the repository state it.                          *)
(***************************************************************************)
\* a header with value v
Header(v) == [present |-> TRUE, value |-> v]

\* the character of s at position i
CharAt(s, i) == SubSeq(s, i, i)

RECURSIVE SplitFrom(_, _, _)
\* s.split(","): the pieces of s from position i on, cur being the piece begun
SplitFrom(s, i, cur) ==
  IF i > Len(s) THEN <<cur>>
  ELSE IF CharAt(s, i) = "," THEN <<cur>> \o SplitFrom(s, i + 1, "")
  ELSE SplitFrom(s, i + 1, cur \o CharAt(s, i))

SplitComma(s) == SplitFrom(s, 1, "")

\* a defect: the pieces are taken as they are
StrStripNone(s) == s

RECURSIVE StrStrip(_)
\* origin.strip()
StrStrip(s) ==
  IF s = "" THEN s
  ELSE IF CharAt(s, 1) = " " THEN StrStrip(SubSeq(s, 2, Len(s)))
  ELSE IF CharAt(s, Len(s)) = " " THEN StrStrip(SubSeq(s, 1, Len(s) - 1))
  ELSE s

\* [origin.strip() for origin in settings.CORS_ORIGINS.split(",")]
AllowOrigins(cfg) ==
  [i \in 1..Len(SplitComma(cfg)) |-> StrStrip(SplitComma(cfg)[i])]

\* values of CORS_ORIGINS in the environment
CorsSettings ==
  {"", "http://a", "http://a,https://b", "http://a, https://b",
   " http://a ,https://b ", "https://b,,http://a", "https://c",
   "http://a,https://b,https://c", "https://b ", "http://a/,https://b"}

\* Origin headers of requests
OriginHeaders ==
  {NoHeader} \cup
  {Header(o) : o \in {"http://a", "https://b", "https://c", "http://a/",
                      "HTTP://A", "https://bb", "http://a,https://b", "a", ""}}

\* o is an element of the list q
InList(o, q) == \E i \in 1..Len(q) : q[i] = o

\* the module is imported: the application is built, with the middleware
\* when CORS_ORIGINS is not empty
BuildApp ==
  /\ cpc = "down"
  /\ UNCHANGED notCors
  /\ \E cfg \in CorsSettings :
       /\ cors_origins' = cfg
       /\ has_cors' = (cfg # "")
       /\ allow_origins' = IF cfg # "" THEN AllowOrigins(cfg) ELSE << >>
  /\ cpc' = "up"
  /\ UNCHANGED <<req_origin, resp_status, resp_acao>>

\* GET / is served: read_root answers 200, and the middleware adds the
\* header for an allowed origin
GetRoot ==
  /\ cpc \in {"up", "served"}
  /\ UNCHANGED notCors
  /\ \E o \in OriginHeaders :
       /\ req_origin' = o
       /\ resp_status' = 200
       /\ resp_acao' = IF has_cors /\ o.present /\ InList(o.value, allow_origins)
                         THEN Header(o.value)
                         ELSE NoHeader
  /\ cpc' = "served"
  /\ UNCHANGED <<cors_origins, allow_origins, has_cors>>

NextCors == BuildApp \/ GetRoot

SpecCors == Init /\ [][NextCors]_vars

\* the origins the setting names: its comma-separated entries without the
\* blanks around them (read off the text of the setting)
ConfiguredOrigins ==
  {o \in {"http://a", "https://b", "https://c", "http://a/", ""} :
     /\ cors_origins # ""
     /\ \E i \in 0..Len(cors_origins) : \E j \in i..Len(cors_origins) :
          /\ i = 0 \/ CharAt(cors_origins, i) = ","
          /\ j = Len(cors_origins) \/ CharAt(cors_origins, j + 1) = ","
          /\ \E a \in i..j : \E b \in a..j :
               /\ SubSeq(cors_origins, a + 1, b) = o
               /\ \A k \in (i + 1)..a : CharAt(cors_origins, k) = " "
               /\ \A k \in (b + 1)..j : CharAt(cors_origins, k) = " "}

MergeSubmit ==
  /\ mgpc = "idle"
  /\ UNCHANGED notMerge
  /\ \E pics \in PictureLists \ {<< >>}, bs \in BatchSizes :
       LET nb == Len(ChunkList(pics, EffBatchSize(bs))) IN
       /\ m_pics' = pics
       /\ m_outs' \in [1..nb -> {ParsedOf(raw) : raw \in RawLists("frames", pics)}]
       /\ m_pending' = 1..nb
  /\ mgpc' = "collect"
  /\ UNCHANGED <<m_order, m_all>>

\* `for fut in as_completed(fut2idx)`: the next completed batch is merged;
\* after the last one, _sort_all
MergeCollect ==
  /\ mgpc = "collect"
  /\ UNCHANGED notMerge
  /\ \E bi \in m_pending :
       /\ m_pending' = m_pending \ {bi}
       /\ m_order' = Append(m_order, bi)
       /\ IF m_pending = {bi}
            THEN /\ m_all' = SortAll(ShotOrderMap(m_pics), m_all \o m_outs[bi])
                 /\ mgpc' = "done"
            ELSE /\ m_all' = m_all \o m_outs[bi]
                 /\ UNCHANGED mgpc
  /\ UNCHANGED <<m_pics, m_outs>>

NextMerge == MergeSubmit \/ MergeCollect

SpecMerge == Init /\ [][NextMerge]_vars

\* the result when the batches complete in the order of submission
InOrderResult == SortAll(ShotOrderMap(m_pics), JoinAll(m_outs))

\* how often x occurs in q
CountIn(x, q) == Cardinality({i \in 1..Len(q) : q[i] = x})

\* C35: with the answers of the batches fixed, the merged sequence is the
\* same whatever the order in which the parallel batches complete, and the
\* entries of every batch are merged exactly once.
C35_CompletionOrderInvisible ==
  mgpc = "done" =>
    /\ m_all = InOrderResult
    /\ \A x \in Range(m_all) \cup Range(JoinAll(m_outs)) :
         CountIn(x, m_all) = CountIn(x, JoinAll(m_outs))

(***************************************************************************)
(* generate_with_fallback as a function of what the backend does           *)
(* (providers/llm/gemini.py)                                               *)
(*                                                                         *)
(* The backend's behaviour is a script: its k-th element is what the k-th  *)
(* invocation does; invocations after the end of the script raise a        *)
(* permanent error.  A run is the call's state after each invocation:      *)
(* position, candidate, retry attempt, buffer, segment count, first        *)
(* reason, failure log and the invocations made (model, kind of request,   *)
(* text carried).                                                          *)
(***************************************************************************)
\* the outcome of invocation k
ScriptAt(sc, k) ==
  IF k <= Len(sc) THEN sc[k]
  ELSE [kind |-> "permanent", txt |-> << >>, reason |-> "UNKNOWN"]

\* ''.join(total)[-ctx_chars:], for ctx_chars >= 0
Window(t, k) ==
  IF k = 0 THEN t
  ELSE SubSeq(t, Len(t) - MinOf({k, Len(t)}) + 1, Len(t))

\* the state at the entry of the candidate loop
RunStart ==
  [pc |-> "first", ci |-> 1, k |-> 1, attempt |-> 0, total |-> << >>, seg |-> 0,
   reason1 |-> "UNKNOWN", fails |-> << >>, calls |-> << >>,
   txt |-> << >>, used |-> ""]

\* `return txt, name, failures`
RunReturn(st, txt) == [st EXCEPT !.pc = "done", !.txt = txt, !.used = UsedModel(st.ci)]

\* `failures.append(...); continue`
RunGiveUp(st, entry) ==
  [st EXCEPT !.fails = AppendFailure(st.fails, entry),
             !.ci = NextIndex(st.ci),
             !.pc = IF NextIndex(st.ci) > NumCand THEN "done" ELSE "first",
             !.attempt = 0, !.total = << >>, !.seg = 0, !.reason1 = "UNKNOWN"]

\* a defect: the buffer is dropped when the loop ends
RunAfterLoopGivesUp(st, tot) ==
  RunGiveUp(st, Entry(st.ci, "parts_empty_after_continue", st.reason1))

\* the code after the `while` loop
RunAfterLoop(st, tot) ==
  IF ~IsBlank(JoinAll(tot))
    THEN RunReturn([st EXCEPT !.total = tot], JoinAll(tot))
    ELSE RunGiveUp(st, Entry(st.ci, "parts_empty_after_continue", st.reason1))

\* the request of the next invocation
RunCall(st, ctx) ==
  [model |-> Candidates[st.ci], kind |-> st.pc,
   acc |-> JoinAll(st.total),
   carried |-> IF st.pc = "cont" THEN Window(JoinAll(st.total), ctx) ELSE << >>]

\* a defect: when a follow-up raises, the buffer is returned as the result
RunRaisedKeepsBuffer(st, o, kindOfEntry) ==
  IF ShouldRetry(st.attempt, o.kind)
    THEN [st EXCEPT !.attempt = st.attempt + 1]
  ELSE IF st.pc = "cont" THEN RunReturn(st, JoinAll(st.total))
  ELSE RunGiveUp(st, Entry(st.ci, kindOfEntry, o.kind))

\* an invocation raised
RunRaised(st, o, kindOfEntry) ==
  IF ShouldRetry(st.attempt, o.kind)
    THEN [st EXCEPT !.attempt = st.attempt + 1]
    ELSE RunGiveUp(st, Entry(st.ci, kindOfEntry, o.kind))

\* the first request of a candidate was answered by o
RunFirst(st, o, pol, lim) ==
  IF IsComplete(o.txt, o.reason) THEN RunReturn(st, o.txt)
  ELSE IF o.reason \in TruncReasons
    THEN IF EmptyFirstChunk(o.txt)
           THEN RunGiveUp(st, Entry(st.ci, "empty_first_chunk", o.reason))
         ELSE IF ReturnsPartial(pol) THEN RunReturn(st, o.txt)
         ELSE IF pol = "raise" THEN RunGiveUp(st, Entry(st.ci, "partial", o.reason))
         ELSE IF ContinueGuard(0, lim)
           THEN [st EXCEPT !.pc = "cont", !.total = <<o.txt>>, !.seg = 0,
                           !.attempt = 0, !.reason1 = o.reason]
         ELSE RunReturn([st EXCEPT !.total = <<o.txt>>], o.txt)
  ELSE IF NeedsPatch(o.txt)
    THEN [st EXCEPT !.fails = AppendFailure(st.fails, Entry(st.ci, "empty_text", o.reason)),
                    !.pc = "patch", !.attempt = 0, !.reason1 = o.reason]
  ELSE RunReturn(st, o.txt)

\* a defect: only MAX_TOKENS keeps the continuation going
LeavesLoopUnlessMaxTokens(reason) == reason # "MAX_TOKENS"

\* `if seg_reason not in ("MAX_TOKENS", "UNKNOWN"): break`
LeavesLoop(reason) == reason \notin TruncReasons

\* a follow-up request was answered by o
RunCont(st, o, lim) ==
  LET tot == AppendSegment(st.total, o.txt) IN
  IF o.reason \in FINISH_REASON_STOP THEN RunAfterLoop(st, tot)
  ELSE IF LeavesLoop(o.reason) THEN RunAfterLoop(st, tot)
  ELSE IF ContinueGuard(st.seg + 1, lim)
    THEN [st EXCEPT !.seg = st.seg + 1, !.total = tot, !.attempt = 0]
  ELSE RunAfterLoop(st, tot)

\* the repair request was answered by o
RunPatch(st, o) ==
  IF PatchHasText(o.txt) THEN RunReturn(st, o.txt)
  ELSE RunGiveUp(st, Entry(st.ci, "patch_empty_text", o.reason))

\* one invocation of the backend and what the call does with its outcome
RunStep(st, sc, pol, lim, ctx) ==
  LET o  == ScriptAt(sc, st.k)
      s1 == [st EXCEPT !.k = st.k + 1, !.calls = Append(st.calls, RunCall(st, ctx))]
  IN  IF o.kind # "resp"
        THEN RunRaised(s1, o, IF st.pc = "patch" THEN "patch_retry_exception"
                                                  ELSE "EXCEPTION")
      ELSE IF st.pc = "first" THEN RunFirst(s1, o, pol, lim)
      ELSE IF st.pc = "cont" THEN RunCont(s1, o, lim)
      ELSE RunPatch(s1, o)

RECURSIVE RunFrom(_, _, _, _, _)
RunFrom(st, sc, pol, lim, ctx) ==
  IF st.pc = "done" THEN st ELSE RunFrom(RunStep(st, sc, pol, lim, ctx), sc, pol, lim, ctx)

\* generate_with_fallback(prompt, on_max_tokens=pol, continue_segments=lim,
\* continue_context_chars=ctx) against the script sc
GenerateWithFallback(sc, pol, lim, ctx) ==
  LET st == RunFrom(RunStart, sc, pol, lim, ctx)
  IN  [txt |-> st.txt, used |-> st.used, fails |-> st.fails, calls |-> st.calls]

\* what a script is made of
ScriptOutcomes == Outcomes

\* the parameters passed: the policies, with the budgets that matter for
\* "continue"
RunParams ==
  {<<"return", 0>>, <<"raise", 0>>} \cup {<<"continue", l>> : l \in 0..2}

\* continue_context_chars passed: none, one character, the default 3000
CtxSizes == {0, 1, 3000}

\* one call of generate_with_fallback
RunCallOnce ==
  /\ rnpc = "idle"
  /\ UNCHANGED notRun
  /\ \E sc \in [1..MaxCalls -> ScriptOutcomes], pm \in RunParams, ctx \in CtxSizes :
       /\ script' = sc
       /\ r_on_max' = pm[1]
       /\ r_seg_limit' = pm[2]
       /\ r_ctx' = ctx
       /\ r_ret' = GenerateWithFallback(sc, pm[1], pm[2], ctx)
  /\ rnpc' = "done"

NextRun == RunCallOnce

SpecRun == Init /\ [][NextRun]_vars

\* the script with the MAX_TOKENS answer at position i, if there is one,
\* replaced by an UNKNOWN answer with the same text
Replaced(sc, i) ==
  [k \in 1..Len(sc) |->
     IF k = i /\ sc[k].kind = "resp" /\ sc[k].reason = "MAX_TOKENS"
       THEN [sc[k] EXCEPT !.reason = "UNKNOWN"] ELSE sc[k]]

\* a failure log without the reason names
KindsOf(fl) == [j \in 1..Len(fl) |-> [name |-> fl[j].name, kind |-> fl[j].kind]]

\* C36: an UNKNOWN answer is handled like a MAX_TOKENS answer: with one
\* MAX_TOKENS answer replaced by an UNKNOWN answer of the same text, the
\* call returns the same text and model after the same invocations, and the
\* failure logs differ in the reason names at most.
C36_UnknownLikeMaxTokens ==
  rnpc = "done" =>
    \A i \in 1..Len(script) :
      LET other == GenerateWithFallback(Replaced(script, i), r_on_max, r_seg_limit, r_ctx)
      IN  /\ other.txt = r_ret.txt
          /\ other.used = r_ret.used
          /\ other.calls = r_ret.calls
          /\ KindsOf(other.fails) = KindsOf(r_ret.fails)

\* a MAX_TOKENS first answer was continued and its follow-up was MAX_TOKENS
\* again
C36_Witness ==
  /\ rnpc = "done"
  /\ r_on_max = "continue" /\ r_seg_limit = 2
  /\ script[1] = [kind |-> "resp", txt |-> <<"x">>, reason |-> "MAX_TOKENS"]
  /\ script[2].kind = "resp" /\ script[2].reason = "MAX_TOKENS"
  /\ Len(r_ret.calls) = 3
  /\ r_ret.calls[3].kind = "cont"

\* the last min(k, Len(t)) characters of t
LastChars(t, k) == SubSeq(t, Len(t) - MinOf({k, Len(t)}) + 1, Len(t))

\* C37: every follow-up request carries the last min(K, L) characters of
\* the text accumulated so far, L being its length and K the value of
\* continue_context_chars, for every K >= 0; the accumulated text is not
\* shortened.
C37_WindowIsLastK ==
  rnpc = "done" =>
    \A j \in 1..Len(r_ret.calls) :
      r_ret.calls[j].kind = "cont" =>
        /\ r_ret.calls[j].carried = LastChars(r_ret.calls[j].acc, r_ctx)
        /\ (j > 1 /\ r_ret.calls[j - 1].kind = "cont"
               /\ r_ret.calls[j - 1].model = r_ret.calls[j].model) =>
             SubSeq(r_ret.calls[j].acc, 1, Len(r_ret.calls[j - 1].acc))
               = r_ret.calls[j - 1].acc

\* the answer to invocation j is truncated: MAX_TOKENS or UNKNOWN
TruncatedAt(j) ==
  ScriptAt(script, j).kind = "resp" /\ ScriptAt(script, j).reason \in TruncReasons

\* the candidate whose first request is invocation a uses up its budget:
\* its first answer is truncated with text, and so is each of the
\* r_seg_limit follow-ups
ExhaustsBudgetFrom(a) ==
  /\ r_ret.calls[a].kind = "first"
  /\ a + r_seg_limit <= Len(script)
  /\ TruncatedAt(a) /\ ~IsBlank(script[a].txt)
  /\ \A j \in (a + 1)..(a + r_seg_limit) : TruncatedAt(j)

\* C38: under policy "continue", a candidate whose budget of follow-ups is
\* used up without a STOP returns the accumulated text, truncated as it is,
\* and no failure entry is logged for it; a candidate whose follow-ups were
\* all answered is not given up, its buffer never being blank.
C38_ExhaustedBudgetReturnsBuffer ==
  (rnpc = "done" /\ r_on_max = "continue") =>
    /\ \A a \in 1..Len(r_ret.calls) :
         ExhaustsBudgetFrom(a) =>
           /\ Len(r_ret.calls) = a + r_seg_limit
           /\ r_ret.used = r_ret.calls[a].model
           /\ r_ret.txt = JoinAll([j \in 1..(r_seg_limit + 1) |-> script[a + j - 1].txt])
           /\ ~IsBlank(r_ret.txt)
           /\ \A f \in 1..Len(r_ret.fails) : r_ret.fails[f].name # r_ret.used
    /\ \A f \in 1..Len(r_ret.fails) :
         r_ret.fails[f].kind # "parts_empty_after_continue"

\* the budget of two follow-ups is used up and the three texts are returned
C38_Witness ==
  /\ rnpc = "done"
  /\ r_on_max = "continue" /\ r_seg_limit = 2
  /\ \A j \in 1..3 : TruncatedAt(j) /\ script[j].txt = <<"x">>
  /\ r_ret.txt = <<"x", "x", "x">>
  /\ r_ret.used = Candidates[1]
  /\ r_ret.fails = << >>

(***************************************************************************)
(* The number of batch executions of generate_keyframe_prompts_batched.    *)
(* The answers carry identifiers of the request; every execution of a      *)
(* batch by _run_batches is tallied in executed, and retry_round is the    *)
(* number of regeneration batches.                                         *)
(***************************************************************************)
\* the requests of the tally: the shot at position i has the identifier
\* "S00i"
TallyLists == {[i \in 1..n |-> [shot_id |-> StrId(i)]] : n \in 0..MaxShots}

StartTally == StartFrom("tally", TallyLists, BatchSizes)

NextTally ==
  \/ StartTally
  \/ RunBatch
  \/ RetryRound

SpecTally == Init /\ [][NextTally]_vars

RECURSIVE SumTo(_, _)
\* executed[1] + ... + executed[n]
SumTo(f, n) == IF n = 0 THEN 0 ELSE SumTo(f, n - 1) + f[n]

\* all executions of _run_one_batch so far
Executions == SumTo(executed, Len(executed)) + retry_round

\* 4 * ceil(N / B) + max_missing_retry_rounds
ExecutionBound ==
  LastTier * CeilDiv(Len(pictures), EffBatchSize(batch_size)) + max_rounds

WithinExecutionBound ==
  bpc # "idle" =>
    /\ \A b \in 1..Len(executed) : executed[b] <= LastTier
    /\ retry_round <= max_rounds
    /\ Executions <= ExecutionBound

\* the call is at a point where it runs a further batch
CanGoOn ==
  \/ bpc = "tier" /\ pending # << >>
  \/ bpc = "cover" /\ missing # << >> /\ retry_round < max_rounds

\* C39: generate_keyframe_prompts_batched returns: each batch is executed
\* at most four times, at most max_missing_retry_rounds regeneration
\* batches follow, and at most 4 * ceil(N / B) + max_missing_retry_rounds
\* batches are executed; every step of a started call executes one more
\* batch, and the call then has returned or runs a further batch, so that
\* the bound on the executions ends it.
C39_Step ==
  /\ WithinExecutionBound'
  /\ bpc # "idle" => Executions' = Executions + 1
  /\ bpc' = "finished" \/ CanGoOn'

C39_TerminatesWithinBound == [][C39_Step]_vars

\* two batches fail at all four tiers and the regeneration round is used:
\* the bound is attained
C39_Witness ==
  /\ bpc = "finished"
  /\ env = "tally"
  /\ Len(executed) = 2
  /\ \A b \in 1..2 : executed[b] = LastTier
  /\ max_rounds = MaxRetryRounds /\ retry_round = max_rounds
  /\ Executions = ExecutionBound

\* the invocations made to the candidate named m
CallsTo(m) == {j \in 1..Len(r_ret.calls) : r_ret.calls[j].model = m}

\* the texts of the answers to the invocations a..b, joined in order
AnswersJoined(a, b) ==
  IF b < a THEN << >>
  ELSE JoinAll([j \in 1..(b - a + 1) |-> ScriptAt(script, a + j - 1).txt])

\* invocation j is a follow-up request that raised an error
\* _call_with_retry does not retry
FollowUpRaised(j) ==
  r_ret.calls[j].kind = "cont" /\ ScriptAt(script, j).kind = "permanent"

\* the returned text is made of answers of the returned model alone
TextOfUsedOnly ==
  r_ret.used # "" =>
    LET own  == CallsTo(r_ret.used)
        n    == Len(r_ret.calls)
        a    == MinOf(own)
    IN /\ own = a..n
       /\ \A j \in own : ScriptAt(script, j).kind # "permanent"
       /\ r_ret.txt = IF r_ret.calls[n].kind = "patch"
                        THEN ScriptAt(script, n).txt
                        ELSE AnswersJoined(a, n)

\* the buffer a follow-up request is built from holds the answers of the
\* same candidate alone
BufferOfOneCandidate ==
  \A j \in 1..Len(r_ret.calls) :
    r_ret.calls[j].kind = "cont" =>
      /\ r_ret.calls[j - 1].model = r_ret.calls[j].model
      /\ r_ret.calls[j].acc = AnswersJoined(MinOf(CallsTo(r_ret.calls[j].model)), j - 1)

\* a candidate whose follow-up raised is given up with an EXCEPTION entry,
\* nothing of its text is returned, and the next invocation, if there is a
\* next candidate, is a first request that carries none of it
RaisedFollowUpDiscards ==
  \A j \in 1..Len(r_ret.calls) :
    FollowUpRaised(j) =>
      LET m == r_ret.calls[j].model IN
      /\ r_ret.used # m
      /\ \E f \in 1..Len(r_ret.fails) :
           r_ret.fails[f].name = m /\ r_ret.fails[f].kind = "EXCEPTION"
      /\ IF j < Len(r_ret.calls)
           THEN /\ r_ret.calls[j + 1].kind = "first"
                /\ r_ret.calls[j + 1].model # m
                /\ r_ret.calls[j + 1].acc = << >>
                /\ r_ret.calls[j + 1].carried = << >>
           ELSE m = Candidates[NumCand] /\ r_ret.used = "" /\ r_ret.txt = << >>

\* C40: the text generate_with_fallback returns is made of the answers of
\* one candidate, the one it names as the model used; when a follow-up
\* request raises, the text accumulated for that candidate is dropped, an
\* EXCEPTION entry is logged for it and the next candidate starts with its
\* first request; no buffer holds segments of two candidates.
C40_TextOfOneCandidate ==
  rnpc = "done" =>
    /\ TextOfUsedOnly
    /\ BufferOfOneCandidate
    /\ RaisedFollowUpDiscards

\* the first candidate's answer is truncated and its follow-up raises, the
\* second time for good (the script has ended); the second candidate has no
\* answer either
C40_WitnessRetried ==
  /\ rnpc = "done"
  /\ r_on_max = "continue"
  /\ script[2].kind = "transient" /\ script[3].kind = "transient"
  /\ Len(r_ret.calls) > 4
  /\ r_ret.calls[3].kind = "cont"
  /\ FollowUpRaised(4)

\* the first candidate's answer is truncated and its follow-up raises; the
\* second candidate answers in full and only its text is returned
C40_Witness ==
  /\ rnpc = "done"
  /\ r_on_max = "continue" /\ r_seg_limit = 2
  /\ script[1].kind = "resp" /\ script[1].txt = <<"x">> /\ script[1].reason = "MAX_TOKENS"
  /\ FollowUpRaised(2)
  /\ script[3].kind = "resp" /\ script[3].txt = <<"x">> /\ script[3].reason = "STOP"
  /\ r_ret.used = Candidates[2]
  /\ r_ret.txt = <<"x">>
  /\ Len(r_ret.fails) = 1 /\ r_ret.fails[1].kind = "EXCEPTION"

====
